---- MODULE Spec2Model ----
(***************************************************************************)
(* A model of the Chord Pro parser of plugins/chords/parser.py: the line   *)
(* tokenizer (parse), the chord decomposition of a line                    *)
(* (ChordLine.real_init), the block classes (Verse, Chorus, Tablature) and *)
(* the block assembler (syntax_analysis with its four consume_* helpers),  *)
(* the line wraps and the renderers; and of two programs beside it: the    *)
(* chords-above-lyrics converter of plugins/chords/scripts/converter.py    *)
(* and Generator.generate_context of plugins/chords/generator.py.          *)
(*                                                                         *)
(* A Python string is a sequence of one-character strings; Python indices  *)
(* (0-based, end exclusive) are kept wherever the code computes with them. *)
(* A Python object is a record whose field cls names its class.            *)
(***************************************************************************)
EXTENDS Integers, Sequences, FiniteSets, TLC

\* ------------------------------------------------------------------ bounds

\* Longest text, in lines, drawn from Vocabulary.
MaxLines == 2

\* Longest text, in lines, drawn from CoreVocabulary.
MaxCoreLines == 4

\* Longest single line, in characters, drawn from GenAlphabet.
MaxChars == 6

\* Most appends tried on one block object through its own interface.
MaxAppends == 3

\* Longest text, in characters, handed to break_line and break_chordline.
MaxWrapChars == 5

\* Largest width handed to break_line, break_chordline and the renderers.
MaxWidth == 3

\* Longest line to render, in pieces drawn from RenderPieces.
MaxPieces == 3

\* Most lines of a block to render.
MaxBlockLines == 2

\* Longest text, in lines of CoreVocabulary, followed to its end.
MaxLiveLines == 3

\* Longest single line, in characters, drawn from DirectiveAlphabet.
MaxDirectiveChars == 5

\* Longest input of convert, in lines of ConverterLines.
MaxConverterLines == 3

\* Most song slugs in the song-slugs of a collection file.
MaxSongSlugs == 2

\* ------------------------------------------------------------------ strings

Min(S) == CHOOSE x \in S : \A y \in S : x <= y

Max(S) == CHOOSE x \in S : \A y \in S : y <= x

\* The characters str.strip() removes and \s matches, among those of the model.
Whitespace == {" ", "\t"}

UpperCase == <<"A", "B", "C", "D", "E", "F", "G", "H", "I", "J", "K", "L", "M",
               "N", "O", "P", "Q", "R", "S", "T", "U", "V", "W", "X", "Y", "Z">>

LowerCase == <<"a", "b", "c", "d", "e", "f", "g", "h", "i", "j", "k", "l", "m",
               "n", "o", "p", "q", "r", "s", "t", "u", "v", "w", "x", "y", "z">>

\* One character under re.I: upper case letters compare as lower case.
Lower(c) ==
  IF \E i \in DOMAIN UpperCase : UpperCase[i] = c
  THEN LowerCase[CHOOSE i \in DOMAIN UpperCase : UpperCase[i] = c]
  ELSE c

\* str.lstrip()
lstrip(s) ==
  LET keep == {i \in DOMAIN s : s[i] \notin Whitespace}
  IN  IF keep = {} THEN <<>> ELSE SubSeq(s, Min(keep), Len(s))

\* str.rstrip()
rstrip(s) ==
  LET keep == {i \in DOMAIN s : s[i] \notin Whitespace}
  IN  IF keep = {} THEN <<>> ELSE SubSeq(s, 1, Max(keep))

\* str.strip()
strip(s) == lstrip(rstrip(s))

RECURSIVE split(_, _)
\* str.split(sep) for a one-character separator: the pieces between the
\* separators, empty pieces kept.
split(s, sep) ==
  LET at == {i \in DOMAIN s : s[i] = sep}
  IN  IF at = {} THEN <<s>>
      ELSE <<SubSeq(s, 1, Min(at) - 1)>> \o split(SubSeq(s, Min(at) + 1, Len(s)), sep)

RECURSIVE join(_, _)
\* sep.join(parts)
join(parts, sep) ==
  IF parts = <<>> THEN <<>>
  ELSE IF Len(parts) = 1 THEN parts[1]
  ELSE parts[1] \o <<sep>> \o join(Tail(parts), sep)

\* ------------------------------------------------------------------ chords

RECURSIVE finditer_from(_, _)
\* The matches of LineParser.chord, \[(?P<v>[^\]]*)\], in s from Python
\* position pos on, left to right and not overlapping: a match opens at the
\* first "[" that has a "]" somewhere after it and closes at the first such
\* "]". start and end are Python's z.start() and z.end().
finditer_from(s, pos) ==
  LET opens == {i \in (pos + 1)..Len(s) :
                  s[i] = "[" /\ \E j \in (i + 1)..Len(s) : s[j] = "]"}
  IN  IF opens = {} THEN <<>>
      ELSE LET i == Min(opens)
               j == Min({j \in (i + 1)..Len(s) : s[j] = "]"})
           IN  <<[start |-> i - 1, end |-> j, v |-> SubSeq(s, i + 1, j - 1)]>>
                 \o finditer_from(s, j)

\* LineParser.chord.finditer(s)
finditer(s) == finditer_from(s, 0)

\* LineParser.chord.search(s)
chord_search(s) == finditer(s) # <<>>

\* re.UNICODE, which real_init and clen pass where Pattern.sub takes its
\* count: at most this many matches are replaced.
SubCount == 32

RECURSIVE sub_from(_, _, _, _)
\* The text of s from Python position pos on with the matches ms[n..] cut
\* out, as long as fewer than SubCount matches have been cut.
sub_from(s, ms, n, pos) ==
  IF n > Len(ms) \/ n > SubCount THEN SubSeq(s, pos + 1, Len(s))
  ELSE SubSeq(s, pos + 1, ms[n].start) \o sub_from(s, ms, n + 1, ms[n].end)

\* LineParser.chord.sub('', s, re.UNICODE)
chord_sub(s) == sub_from(s, finditer(s), 1, 0)

\* The mutant of Subtract: the end of the previous match alone.
SubtractEndOnly(z) == z.end

\* What real_init subtracts from the start of the match after z: the end of
\* z plus the length of z's chord text.
Subtract(z) == z.end + (z.end - z.start) - 2

\* The mutant of Spaced: no spacing enforced.
SpacedNever(i, c) == c

\* real_init's spacing rule for the chord c at 0-based place i of the list:
\* every chord but the first is given at least one column.
Spaced(i, c) == IF i >= 1 /\ c[1] <= 0 THEN <<1, c[2]>> ELSE c

\* real_init's chord list of one string: for each match its start less the
\* running subtraction, paired with the chord text, then spaced.
to_append(k) ==
  LET ms  == finditer(k)
      raw == [n \in DOMAIN ms |->
                <<ms[n].start - (IF n = 1 THEN 0 ELSE Subtract(ms[n - 1])), ms[n].v>>]
  IN  [n \in DOMAIN raw |-> Spaced(n - 1, raw[n])]

\* The mutant of real_init: a string without chords is given no chord list.
real_init_chorded_only(value) ==
  <<[n \in DOMAIN value |-> chord_sub(value[n])],
    SelectSeq([n \in DOMAIN value |-> to_append(value[n])], LAMBDA c : c # <<>>)>>

\* ChordLine.real_init(value): the bare strings and the chord lists of a list
\* of strings.
real_init(value) ==
  <<[n \in DOMAIN value |-> chord_sub(value[n])],
    [n \in DOMAIN value |-> to_append(value[n])]>>

\* ------------------------------------------------------------------ reflow

\* The mutant of trimmed: the fragments are stripped but empty ones are kept.
trimmed_keeping_empty(retval) == [n \in DOMAIN retval |-> strip(retval[n])]

\* [k.strip() for k in retval if k.strip()]
trimmed(retval) ==
  SelectSeq([n \in DOMAIN retval |-> strip(retval[n])], LAMBDA k : k # <<>>)

RECURSIVE break_line_loop(_, _, _)
\* The loop of break_line over the words ks still to place: the first word
\* opens the first fragment; before every other word a space is added to the
\* last fragment if that is shorter than width, else opens a fragment of its
\* own, and the word is added to the last fragment if both fit in width,
\* else opens a fragment of its own.
break_line_loop(retval, ks, width) ==
  IF ks = <<>> THEN retval
  ELSE IF retval = <<>> THEN break_line_loop(<<ks[1]>>, Tail(ks), width)
  ELSE LET r1 == IF Len(retval[Len(retval)]) < width
                 THEN [retval EXCEPT ![Len(retval)] = @ \o <<" ">>]
                 ELSE Append(retval, <<" ">>)
           r2 == IF Len(r1[Len(r1)]) + Len(ks[1]) <= width
                 THEN [r1 EXCEPT ![Len(r1)] = @ \o ks[1]]
                 ELSE Append(r1, ks[1])
       IN  break_line_loop(r2, Tail(ks), width)

\* break_line(v, width)
break_line(v, width) == trimmed(break_line_loop(<<>>, split(v, " "), width))

\* The mutant of clen: the literal length, chord entries counted.
clen_literal(v) == Len(v)

\* break_chordline's clen(v): the length of v without its chord entries.
clen(v) == Len(chord_sub(v))

RECURSIVE break_chordline_loop(_, _, _)
\* The loop of break_chordline: break_line's, with clen for the lengths.
break_chordline_loop(retval, ks, width) ==
  IF ks = <<>> THEN retval
  ELSE IF retval = <<>> THEN break_chordline_loop(<<ks[1]>>, Tail(ks), width)
  ELSE LET r1 == IF clen(retval[Len(retval)]) < width
                 THEN [retval EXCEPT ![Len(retval)] = @ \o <<" ">>]
                 ELSE Append(retval, <<" ">>)
           r2 == IF clen(r1[Len(r1)]) + clen(ks[1]) <= width
                 THEN [r1 EXCEPT ![Len(r1)] = @ \o ks[1]]
                 ELSE Append(r1, ks[1])
       IN  break_chordline_loop(r2, Tail(ks), width)

\* break_chordline(v, width)
break_chordline(v, width) ==
  trimmed(break_chordline_loop(<<>>, split(v, " "), width))

\* ------------------------------------------------------------------ nodes

\* Python's None.
None == [cls |-> "NoneType"]

\* The base classes of each class, itself included (class X(Y) statements).
Bases ==
  [Line |-> {"Line"},
   ChordLine |-> {"ChordLine", "Line"},
   EmptyLine |-> {"EmptyLine"},
   HashComment |-> {"HashComment", "EmptyLine"},
   Verse |-> {"Verse"},
   Chorus |-> {"Chorus", "Verse"},
   Tablature |-> {"Tablature", "Verse"},
   Command |-> {"Command"},
   StartOfChorus |-> {"StartOfChorus", "Command"},
   EndOfChorus |-> {"EndOfChorus", "Command"},
   StartOfTablature |-> {"StartOfTablature", "Command"},
   EndOfTablature |-> {"EndOfTablature", "Command"},
   Comment |-> {"Comment", "Command"},
   UnsupportedCommand |-> {"UnsupportedCommand", "Command"},
   NoneType |-> {"NoneType"},
   list |-> {"list"}]

\* isinstance(x, classes) for a set of class names.
isinstance(x, classes) == Bases[x.cls] \cap classes # {}

\* Line(v, lineno)
Line(v, lineno) == [cls |-> "Line", lineno |-> lineno, value |-> v]

\* ChordLine(v, lineno): the line with its bare text and its chord list.
ChordLine(v, lineno) ==
  LET r == real_init(<<v>>)
  IN  [cls |-> "ChordLine", lineno |-> lineno, value |-> v,
       bare |-> r[1][1], chords |-> r[2][1]]

\* EmptyLine(lineno)
EmptyLine(lineno) == [cls |-> "EmptyLine", lineno |-> lineno]

\* HashComment(v, lineno)
HashComment(v, lineno) == [cls |-> "HashComment", lineno |-> lineno, comment |-> v]

\* StartOfChorus(lineno)
StartOfChorus(lineno) == [cls |-> "StartOfChorus", lineno |-> lineno]

\* EndOfChorus(lineno)
EndOfChorus(lineno) == [cls |-> "EndOfChorus", lineno |-> lineno]

\* StartOfTablature(lineno)
StartOfTablature(lineno) == [cls |-> "StartOfTablature", lineno |-> lineno]

\* EndOfTablature(lineno)
EndOfTablature(lineno) == [cls |-> "EndOfTablature", lineno |-> lineno]

\* Comment(lineno, value)
Comment(lineno, value) == [cls |-> "Comment", lineno |-> lineno, value |-> value]

\* UnsupportedCommand(command, value, lineno)
UnsupportedCommand(command, value, lineno) ==
  [cls |-> "UnsupportedCommand", lineno |-> lineno, command |-> command, value |-> value]

\* UnsupportedCommand.as_html(): the empty string.
UnsupportedCommand_as_html(self) == <<>>

\* ------------------------------------------------------------------ directives

\* The names the patterns of CommandParser look for.
W_comment == <<"c", "o", "m", "m", "e", "n", "t">>

W_c == <<"c">>

W_start_of_chorus == <<"s", "t", "a", "r", "t", "_", "o", "f", "_", "c", "h", "o", "r", "u", "s">>

W_soc == <<"s", "o", "c">>

W_end_of_chorus == <<"e", "n", "d", "_", "o", "f", "_", "c", "h", "o", "r", "u", "s">>

W_eoc == <<"e", "o", "c">>

W_start_of_tab == <<"s", "t", "a", "r", "t", "_", "o", "f", "_", "t", "a", "b">>

W_sot == <<"s", "o", "t">>

W_end_of_tab == <<"e", "n", "d", "_", "o", "f", "_", "t", "a", "b">>

W_eot == <<"e", "o", "t">>

W_define == <<"d", "e", "f", "i", "n", "e">>

W_title == <<"t", "i", "t", "l", "e">>

W_t == <<"t">>

W_subtitle == <<"s", "u", "b", "t", "i", "t", "l", "e">>

W_st == <<"s", "t">>

\* The text CommandParser puts after a directive it does not know.
IgnoredMark == <<" ", "[", "I", "G", "N", "O", "R", "E", "D", "]">>

\* The index of the first character of s at or after index i that is not
\* white space (Len(s) + 1 when there is none): where a greedy \s* stops.
SkipWs(s, i) ==
  LET stop == {j \in i..Len(s) : s[j] \notin Whitespace}
  IN  IF stop = {} THEN Max({i, Len(s) + 1}) ELSE Min(stop)

\* The word w stands in s at index i, letter case ignored.
LitAt(s, i, w) ==
  /\ i + Len(w) - 1 <= Len(s)
  /\ \A k \in DOMAIN w : Lower(s[i + k - 1]) = Lower(w[k])

\* The index in s after {\s*(w) for each alternative w of alts that stands
\* there, in the order of the alternatives.
AfterName(s, alts) ==
  LET i == SkipWs(s, 2)
  IN  IF s = <<>> \/ s[1] # "{" THEN <<>>
      ELSE SelectSeq([n \in DOMAIN alts |->
                        IF LitAt(s, i, alts[n]) THEN i + Len(alts[n]) ELSE 0],
                     LAMBDA j : j > 0)

\* The index of the last "}" of s at or after index i, 0 when there is none:
\* where the } after a greedy .* matches.
LastBrace(s, i) ==
  LET at == {j \in i..Len(s) : s[j] = "}"}
  IN  IF at = {} THEN 0 ELSE Max(at)

\* Pattern.match for {\s*(alts)\s*}
MatchPlain(s, alts) ==
  \E n \in DOMAIN AfterName(s, alts) :
    LET k == SkipWs(s, AfterName(s, alts)[n])
    IN  k <= Len(s) /\ s[k] = "}"

\* Pattern.match for {\s*(alts)\s*:\s*(?P<v>.*)}: the sequence holding
\* group v of the match, empty when s does not match.
MatchValued(s, alts) ==
  LET after == AfterName(s, alts)
      ok(n) == LET k == SkipWs(s, after[n])
               IN  k <= Len(s) /\ s[k] = ":" /\ LastBrace(s, k + 1) > 0
      hits  == {n \in DOMAIN after : ok(n)}
  IN  IF hits = {} THEN <<>>
      ELSE LET k == SkipWs(s, after[Min(hits)])
           IN  <<SubSeq(s, SkipWs(s, k + 1), LastBrace(s, k + 1) - 1)>>

\* Pattern.match for {\s*(define)\s+(?P<v>.*)}: the sequence holding group v
\* of the match, empty when s does not match.
MatchDefine(s) ==
  LET after == AfterName(s, <<W_define>>)
  IN  IF after = <<>> THEN <<>>
      ELSE LET j == after[1]
               k == SkipWs(s, j)
           IN  IF k > j /\ LastBrace(s, k) > 0
               THEN <<SubSeq(s, k, LastBrace(s, k) - 1)>>
               ELSE <<>>

\* CommandParser.__call__(v, lineno): the first pattern that matches, in the
\* order of the if chain, decides the node; a line matching none becomes a
\* HashComment.
CommandParser(v, lineno) ==
  IF MatchValued(v, <<W_comment, W_c>>) # <<>>
    THEN Comment(lineno, MatchValued(v, <<W_comment, W_c>>)[1])
  ELSE IF MatchPlain(v, <<W_start_of_chorus, W_soc>>) THEN StartOfChorus(lineno)
  ELSE IF MatchPlain(v, <<W_end_of_chorus, W_eoc>>) THEN EndOfChorus(lineno)
  ELSE IF MatchPlain(v, <<W_start_of_tab, W_sot>>) THEN StartOfTablature(lineno)
  ELSE IF MatchPlain(v, <<W_end_of_tab, W_eot>>) THEN EndOfTablature(lineno)
  ELSE IF MatchDefine(v) # <<>>
    THEN UnsupportedCommand("define", MatchDefine(v)[1], lineno)
  ELSE IF MatchValued(v, <<W_title, W_t>>) # <<>>
    THEN UnsupportedCommand("title", MatchValued(v, <<W_title, W_t>>)[1], lineno)
  ELSE IF MatchValued(v, <<W_subtitle, W_st>>) # <<>>
    THEN UnsupportedCommand("subtitle", MatchValued(v, <<W_subtitle, W_st>>)[1], lineno)
  ELSE HashComment(<<"#">> \o v \o IgnoredMark, lineno)

\* LineParser.__call__(l, lineno)
LineParser(l, lineno) ==
  IF chord_search(l) THEN ChordLine(l, lineno) ELSE Line(l, lineno)

\* The mutant of parse_line: a directive line is read as a lyric line.
parse_line_no_directives(l, lineno) ==
  LET sl == strip(l)
  IN  IF sl = <<>> THEN EmptyLine(lineno)
      ELSE IF sl[1] = "#" THEN HashComment(sl, lineno)
      ELSE LineParser(rstrip(l), lineno)

\* The body of parse's loop: the node of the line l, numbered lineno.
parse_line(l, lineno) ==
  LET sl == strip(l)
  IN  IF sl = <<>> THEN EmptyLine(lineno)
      ELSE IF sl[1] = "#" THEN HashComment(sl, lineno)
      ELSE IF sl[1] = "{" THEN CommandParser(sl, lineno)
      ELSE LineParser(rstrip(l), lineno)

\* parse(t): one node for each piece of t.split('\n'), numbered from 1.
parse(t) ==
  LET ls == split(t, "\n")
  IN  [i \in DOMAIN ls |-> parse_line(ls[i], i)]

\* ------------------------------------------------------------------ blocks

\* The exception raised by `raise cls(...)`, with what the message is about
\* and the numbers formatted into it.
Raise(cls, what, args) == [cls |-> cls, what |-> what, args |-> args]

\* Verse()
Verse == [cls |-> "Verse", lines |-> <<>>, ended |-> FALSE]

\* Chorus(start)
Chorus(start) ==
  [cls |-> "Chorus", lines |-> <<>>, ended |-> FALSE, starts |-> start, ends |-> None]

\* Tablature(start)
Tablature(start) ==
  [cls |-> "Tablature", lines |-> <<>>, ended |-> FALSE, starts |-> start, ends |-> None]

\* The mutant of Verse_append: the line is accepted but not kept.
Verse_append_dropping(self, line) == [self |-> self, exc |-> None]

\* Verse.append(line): the block after the call and the exception raised, if
\* any. Building the message reads self.lines[0], an IndexError on a verse
\* without lines.
Verse_append(self, line) ==
  IF ~self.ended
  THEN [self |-> [self EXCEPT !.lines = Append(@, line)], exc |-> None]
  ELSE IF self.lines = <<>>
  THEN [self |-> self, exc |-> Raise("IndexError", "list index out of range", <<>>)]
  ELSE [self |-> self,
        exc |-> Raise("SyntaxError", "Cannot append to Verse",
                      <<self.lines[1].lineno, self.lines[Len(self.lines)].lineno>>)]

\* Chorus.append(line). Building the message reads self.ends.lineno, an
\* AttributeError while ends is None.
Chorus_append(self, line) ==
  IF ~self.ended
  THEN [self |-> [self EXCEPT !.lines = Append(@, line)], exc |-> None]
  ELSE IF self.ends = None
  THEN [self |-> self, exc |-> Raise("AttributeError", "lineno", <<>>)]
  ELSE [self |-> self,
        exc |-> Raise("SyntaxError", "Cannot append to Chorus",
                      <<self.starts.lineno, self.ends.lineno>>)]

\* Tablature.append(line)
Tablature_append(self, line) ==
  IF ~self.ended
  THEN [self |-> [self EXCEPT !.lines = Append(@, line)], exc |-> None]
  ELSE IF self.ends = None
  THEN [self |-> self, exc |-> Raise("AttributeError", "lineno", <<>>)]
  ELSE [self |-> self,
        exc |-> Raise("SyntaxError", "Cannot append to Tablature",
                      <<self.starts.lineno, self.ends.lineno>>)]

\* Verse.end(): marks the verse ended.
Verse_end(self) == [self EXCEPT !.ended = TRUE]

\* The mutant of Chorus_end: the end marker is not recorded.
Chorus_end_unrecorded(self, end) == self

\* Chorus.end(end): records the end marker; ended is not assigned.
Chorus_end(self, end) == [self EXCEPT !.ends = end]

\* Tablature.end(end): records the end marker; ended is not assigned.
Tablature_end(self, end) == [self EXCEPT !.ends = end]

\* ------------------------------------------------------------------ assembler

\* A Python list as a value that += can tell from another object.
List(items) == [cls |-> "list", items |-> items]

\* What a consume_* call leaves: the input list after its pops, the value
\* it returns (None when it raises) and the exception it raises (None when
\* it returns).
Outcome(input, ret, exc) == [input |-> input, ret |-> ret, exc |-> exc]

\* The mutant of ExtraClasses: stray end markers are passed through too.
ExtraClassesWithEndMarkers ==
  {"EmptyLine", "HashComment", "Comment", "UnsupportedCommand",
   "EndOfChorus", "EndOfTablature"}

\* The mutant of ExtraClasses: unsupported directives are not passed through.
ExtraClassesSupportedOnly == {"EmptyLine", "HashComment", "Comment"}

\* The classes consume_extra takes.
ExtraClasses == {"EmptyLine", "HashComment", "Comment", "UnsupportedCommand"}

RECURSIVE extra_loop(_, _)
\* consume_extra's loop: pops nodes of ExtraClasses until another node, or
\* the end of the input (IndexError, caught), stops it.
extra_loop(retval, input) ==
  IF input = <<>> THEN Outcome(input, List(retval), None)
  ELSE IF isinstance(input[1], ExtraClasses)
  THEN extra_loop(Append(retval, input[1]), Tail(input))
  ELSE Outcome(input, List(retval), None)

\* consume_extra(input)
consume_extra(input) == extra_loop(<<>>, input)

\* The mutant of VerseStops: a directive does not stop a verse.
VerseStopsButCommand == {"EmptyLine", "HashComment"}

\* The classes that stop consume_verse's loop.
VerseStops == {"EmptyLine", "HashComment", "Command"}

RECURSIVE verse_loop(_, _)
\* consume_verse's loop and what follows it: appends nodes until a node of
\* VerseStops or the end of the input (IndexError, caught), then ends the
\* verse and returns it in a list. An exception of append other than
\* IndexError leaves the function.
verse_loop(retval, input) ==
  IF input = <<>> \/ isinstance(input[1], VerseStops)
  THEN Outcome(input, List(<<Verse_end(retval)>>), None)
  ELSE LET r == Verse_append(retval, input[1])
       IN  IF r.exc = None THEN verse_loop(r.self, Tail(input))
           ELSE IF r.exc.cls = "IndexError"
           THEN Outcome(Tail(input), List(<<Verse_end(retval)>>), None)
           ELSE Outcome(Tail(input), None, r.exc)

\* consume_verse(input)
consume_verse(input) ==
  IF input = <<>> THEN Outcome(input, List(<<>>), None)
  ELSE IF isinstance(input[1], {"Line"})
  THEN LET r == Verse_append(Verse, input[1])
       IN  IF r.exc = None THEN verse_loop(r.self, Tail(input))
           ELSE Outcome(Tail(input), None, r.exc)
  ELSE Outcome(input, List(<<>>), None)

\* The mutant of CommandInside: an unsupported directive is let into a block.
CommandInsideButUnsupported(i) ==
  isinstance(i, {"Command"}) /\ ~isinstance(i, {"UnsupportedCommand"})

\* The test of consume_chorus and consume_tablature that a node, neither the
\* block's end marker nor a Comment, is a command and so is refused.
CommandInside(i) == isinstance(i, {"Command"})

\* The mutant of ChorusAtEndOfInput: the chorus itself, not in a list.
ChorusAtEndOfInputBare(retval) == retval

\* What consume_chorus returns when the input ends before {eoc}: the chorus
\* in a list.
ChorusAtEndOfInput(retval) == List(<<retval>>)

\* What consume_tablature returns when the input ends before {eot}: the
\* tablature itself, not in a list.
TablatureAtEndOfInput(retval) == retval

RECURSIVE chorus_loop(_, _)
\* consume_chorus's loop. The node popped is an EndOfChorus (the chorus is
\* ended and returned in a list), a Comment (appended), another command
\* (SyntaxError with its line number) or any other node (appended). The pop
\* on an empty input raises IndexError, caught.
chorus_loop(retval, input) ==
  IF input = <<>> THEN Outcome(input, ChorusAtEndOfInput(retval), None)
  ELSE LET i == input[1]
       IN  IF isinstance(i, {"EndOfChorus"})
           THEN Outcome(Tail(input), List(<<Chorus_end(retval, i)>>), None)
           ELSE IF ~isinstance(i, {"Comment"}) /\ CommandInside(i)
           THEN Outcome(Tail(input), None,
                        Raise("SyntaxError", "Cannot have command inside Chorus",
                              <<i.lineno>>))
           ELSE LET r == Chorus_append(retval, i)
                IN  IF r.exc = None THEN chorus_loop(r.self, Tail(input))
                    ELSE Outcome(Tail(input), None, r.exc)

\* consume_chorus(input)
consume_chorus(input) ==
  IF input = <<>> THEN Outcome(input, List(<<>>), None)
  ELSE IF isinstance(input[1], {"StartOfChorus"})
  THEN chorus_loop(Chorus(input[1]), Tail(input))
  ELSE Outcome(input, List(<<>>), None)

RECURSIVE tablature_loop(_, _)
\* consume_tablature's loop: as consume_chorus's, with EndOfTablature, but
\* for what is returned at the end of the input.
tablature_loop(retval, input) ==
  IF input = <<>> THEN Outcome(input, TablatureAtEndOfInput(retval), None)
  ELSE LET i == input[1]
       IN  IF isinstance(i, {"EndOfTablature"})
           THEN Outcome(Tail(input), List(<<Tablature_end(retval, i)>>), None)
           ELSE IF ~isinstance(i, {"Comment"}) /\ CommandInside(i)
           THEN Outcome(Tail(input), None,
                        Raise("SyntaxError", "Cannot have command inside Tablature",
                              <<i.lineno>>))
           ELSE LET r == Tablature_append(retval, i)
                IN  IF r.exc = None THEN tablature_loop(r.self, Tail(input))
                    ELSE Outcome(Tail(input), None, r.exc)

\* consume_tablature(input)
consume_tablature(input) ==
  IF input = <<>> THEN Outcome(input, List(<<>>), None)
  ELSE IF isinstance(input[1], {"StartOfTablature"})
  THEN tablature_loop(Tablature(input[1]), Tail(input))
  ELSE Outcome(input, List(<<>>), None)

\* ------------------------------------------------------------------ rendering

\* The classes of the blocks.
IsBlockClass(cls) == cls \in {"Verse", "Chorus", "Tablature"}

RECURSIVE Concat(_)
\* The sequences ps one after the other.
Concat(ps) == IF ps = <<>> THEN <<>> ELSE ps[1] \o Concat(Tail(ps))

\* A Python str returned by a call, as a value that can be told from a list.
Str(s) == [cls |-> "str", value |-> s]

\* pdf.XPreformatted(text, pdf.style[style]): the flowable of a text in the
\* style registered under a name.
XPreformatted(text, style) == [cls |-> "XPreformatted", text |-> text, style |-> style]

\* What a method call leaves: the object after the call, the value returned
\* (None when it raises) and the exception raised (None when it returns).
Rendered(self, ret) == [self |-> self, ret |-> ret, exc |-> None]

\* The call of a method the class of self does not have.
NoMethod(self, name) ==
  [self |-> self, ret |-> None, exc |-> Raise("AttributeError", name, <<>>)]

\* ' ' * n
Spaces(n) == [i \in 1..n |-> " "]

\* One character upper-cased.
Upper(c) ==
  IF \E i \in DOMAIN LowerCase : LowerCase[i] = c
  THEN UpperCase[CHOOSE i \in DOMAIN LowerCase : LowerCase[i] = c]
  ELSE c

\* str.capitalize(): the first character upper-cased, the others lower-cased.
Capitalize(s) ==
  IF s = <<>> THEN <<>>
  ELSE <<Upper(s[1])>> \o [i \in 1..(Len(s) - 1) |-> Lower(s[i + 1])]

RECURSIVE chords_line_packed(_)
\* The mutant of chords_line: the chord texts without the spaces before them.
chords_line_packed(chords) ==
  IF chords = <<>> THEN <<>>
  ELSE chords[1][2] \o chords_line_packed(Tail(chords))

RECURSIVE chords_line(_)
\* as_html's cline: for each chord, `offset` spaces and the chord text.
chords_line(chords) ==
  IF chords = <<>> THEN <<>>
  ELSE Spaces(chords[1][1]) \o chords[1][2] \o chords_line(Tail(chords))

\* The mutant of annotation: the chord texts are not capitalized.
annotation_uncapitalized(k) ==
  <<"<font color=#000088><b>">> \o chords_line(k) \o <<"</b></font>">>

\* as_pdf's chord-annotation fragment of one chord list: for each chord,
\* `offset` spaces and the chord text capitalized, inside the font markup
\* (a piece of markup stands as one element of the string).
annotation(k) ==
  <<"<font color=#000088><b>">>
    \o chords_line([n \in DOMAIN k |-> <<k[n][1], Capitalize(k[n][2])>>])
    \o <<"</b></font>">>

\* Line.as_html()
Line_as_html(self) ==
  Rendered(self, Str(<<"<span class=\"line\">">> \o self.value \o <<"</span>">>))

\* Line.as_pdf(width)
Line_as_pdf(self, width) == Rendered(self, List(break_line(self.value, width)))

\* ChordLine.as_html()
ChordLine_as_html(self) ==
  Rendered(self,
           Str(<<"<span class=\"chords\">">> \o chords_line(self.chords)
                 \o <<"</span>", "\n">>
                 \o <<"<span class=\"lyrics\">">> \o self.bare \o <<"</span>", "\n">>))

RECURSIVE pdf_lines(_, _)
\* as_pdf's loop: for each chord list its annotation, then the lyrics of the
\* same place.
pdf_lines(chords, lyrics) ==
  IF chords = <<>> THEN <<>>
  ELSE <<annotation(chords[1]), lyrics[1]>> \o pdf_lines(Tail(chords), Tail(lyrics))

\* The mutant of ChordLine_as_pdf: the chords recomputed for the wrapped
\* value are stored in the line.
ChordLine_as_pdf_storing(self, width) ==
  LET r == real_init(break_chordline(self.value, width))
  IN  Rendered([self EXCEPT !.bare = r[1][1], !.chords = r[2][1]],
               List(pdf_lines(r[2], r[1])))

\* ChordLine.as_pdf(width). With fewer chord lists than lyrics the repair
\* branch names `chord`, a local never assigned: UnboundLocalError.
ChordLine_as_pdf(self, width) ==
  LET value == break_chordline(self.value, width)
      r     == real_init(value)
      diff  == Len(r[2]) - Len(r[1])
  IN  IF diff < 0
      THEN [self |-> self, ret |-> None,
            exc |-> Raise("UnboundLocalError", "chord", <<>>)]
      ELSE Rendered(self,
                    List(pdf_lines(r[2], r[1] \o [n \in 1..diff |-> <<>>])))

\* EmptyLine.as_html()
EmptyLine_as_html(self) == Rendered(self, Str(<<"\n">>))

\* EmptyLine.as_pdf(width)
EmptyLine_as_pdf(self, width) == Rendered(self, List(<< <<>> >>))

\* EmptyLine.as_flowable(width)
EmptyLine_as_flowable(self, width) == Rendered(self, XPreformatted(<<"<br/>">>, "verse"))

\* HashComment.as_html()
HashComment_as_html(self) == Rendered(self, Str(<<>>))

\* HashComment.as_pdf(width)
HashComment_as_pdf(self, width) == Rendered(self, List(break_line(self.comment, width)))

\* HashComment.as_flowable(width)
HashComment_as_flowable(self, width) == Rendered(self, None)

\* Command.as_pdf(width)
Command_as_pdf(self, width) == Rendered(self, List(<<>>))

\* Command.as_flowable(width)
Command_as_flowable(self, width) == Rendered(self, None)

\* Comment.as_html()
Comment_as_html(self) ==
  Rendered(self, Str(<<"<span class=\"comment\">">> \o self.value \o <<"</span>", "\n">>))

\* Comment.as_pdf(width)
Comment_as_pdf(self, width) ==
  LET ks == break_line(self.value, width)
  IN  Rendered(self,
               List([n \in DOMAIN ks |->
                       <<"<font color=#444444><i>">> \o ks[n] \o <<"</i></font>">>]))

\* Comment.as_flowable(width)
Comment_as_flowable(self, width) ==
  Rendered(self, XPreformatted(join(break_line(self.value, width), "\n"), "comment"))

\* k.as_html() for a node k that is no block: the method of its class, by
\* the class statements. The marker commands and Command have none.
line_as_html(k) ==
  CASE k.cls = "Line" -> Line_as_html(k)
    [] k.cls = "ChordLine" -> ChordLine_as_html(k)
    [] k.cls = "EmptyLine" -> EmptyLine_as_html(k)
    [] k.cls = "HashComment" -> HashComment_as_html(k)
    [] k.cls = "Comment" -> Comment_as_html(k)
    [] k.cls = "UnsupportedCommand" -> Rendered(k, Str(UnsupportedCommand_as_html(k)))
    [] OTHER -> NoMethod(k, "as_html")

\* k.as_pdf(width) for a node k that is no block.
line_as_pdf(k, width) ==
  CASE k.cls = "Line" -> Line_as_pdf(k, width)
    [] k.cls = "ChordLine" -> ChordLine_as_pdf(k, width)
    [] k.cls = "EmptyLine" -> EmptyLine_as_pdf(k, width)
    [] k.cls = "HashComment" -> HashComment_as_pdf(k, width)
    [] k.cls = "Comment" -> Comment_as_pdf(k, width)
    [] isinstance(k, {"Command"}) -> Command_as_pdf(k, width)
    [] OTHER -> NoMethod(k, "as_pdf")

\* k.as_flowable(width) for a node k that is no block. Line and ChordLine
\* have none.
line_as_flowable(k, width) ==
  CASE k.cls = "EmptyLine" -> EmptyLine_as_flowable(k, width)
    [] k.cls = "HashComment" -> HashComment_as_flowable(k, width)
    [] k.cls = "Comment" -> Comment_as_flowable(k, width)
    [] isinstance(k, {"Command"}) -> Command_as_flowable(k, width)
    [] OTHER -> NoMethod(k, "as_flowable")

\* One turn of the loops below: r is what the call on the first line left,
\* rest what the loop over the other lines, tail, leaves. An exception of
\* the first call ends the loop, the other lines untouched.
after_line(r, rest, tail) ==
  IF r.exc # None
  THEN [lines |-> <<r.self>> \o tail, rets |-> <<>>, exc |-> r.exc]
  ELSE [lines |-> <<r.self>> \o rest.lines, rets |-> <<r.ret>> \o rest.rets, exc |-> rest.exc]

RECURSIVE lines_as_html(_)
\* [k.as_html() for k in lines]: the lines after the calls, the values
\* returned and the exception that ended the loop, if any.
lines_as_html(lines) ==
  IF lines = <<>> THEN [lines |-> <<>>, rets |-> <<>>, exc |-> None]
  ELSE after_line(line_as_html(lines[1]), lines_as_html(Tail(lines)), Tail(lines))

RECURSIVE lines_as_pdf(_, _)
\* The calls k.as_pdf(width) of `for k in lines: data += k.as_pdf(width)`:
\* the lines after the calls, the lists returned and the exception that
\* ended the loop, if any.
lines_as_pdf(lines, width) ==
  IF lines = <<>> THEN [lines |-> <<>>, rets |-> <<>>, exc |-> None]
  ELSE after_line(line_as_pdf(lines[1], width), lines_as_pdf(Tail(lines), width),
                  Tail(lines))

\* The string in the span of a block's class between newlines.
in_span(class, v) ==
  <<"\n", "<span class=\"" \o class \o "\">">> \o v \o <<"</span>", "\n">>

\* What as_html of the block self leaves, r being what the loop over its
\* lines left: the strings returned joined by newlines, for a Chorus or a
\* Tablature inside the span of its class.
html_of_block(self, class, r) ==
  [self |-> [self EXCEPT !.lines = r.lines],
   ret |-> IF r.exc # None THEN None
           ELSE IF class = "verse"
           THEN Str(join([n \in DOMAIN r.rets |-> r.rets[n].value], "\n"))
           ELSE Str(in_span(class, join([n \in DOMAIN r.rets |-> r.rets[n].value], "\n"))),
   exc |-> r.exc]

\* The as_html of a block.
block_as_html(self, class) == html_of_block(self, class, lines_as_html(self.lines))

\* Verse.as_html()
Verse_as_html(self) == block_as_html(self, "verse")

\* Chorus.as_html()
Chorus_as_html(self) == block_as_html(self, "chorus")

\* Tablature.as_html()
Tablature_as_html(self) == block_as_html(self, "tablature")

\* What as_flowable of the block self leaves, r being what the loop over
\* its lines left: data, the fragments of all the lists returned, joined by
\* newlines, in the style of the block's class.
flowable_of_block(self, style, r) ==
  [self |-> [self EXCEPT !.lines = r.lines],
   ret |-> IF r.exc # None THEN None
           ELSE XPreformatted(join(Concat([n \in DOMAIN r.rets |-> r.rets[n].items]), "\n"),
                              style),
   exc |-> r.exc]

\* The as_flowable of a block.
block_as_flowable(self, width, style) ==
  flowable_of_block(self, style, lines_as_pdf(self.lines, width))

\* Verse.as_flowable(width)
Verse_as_flowable(self, width) == block_as_flowable(self, width, "verse")

\* Chorus.as_flowable(width)
Chorus_as_flowable(self, width) == block_as_flowable(self, width, "chorus")

\* Tablature.as_flowable(width)
Tablature_as_flowable(self, width) == block_as_flowable(self, width, "tablature")

\* x.as_html() for any node or block x.
as_html(x) ==
  CASE x.cls = "Verse" -> Verse_as_html(x)
    [] x.cls = "Chorus" -> Chorus_as_html(x)
    [] x.cls = "Tablature" -> Tablature_as_html(x)
    [] OTHER -> line_as_html(x)

\* x.as_pdf(width) for any node or block x. The blocks have none.
as_pdf(x, width) ==
  IF IsBlockClass(x.cls) THEN NoMethod(x, "as_pdf") ELSE line_as_pdf(x, width)

\* x.as_flowable(width) for any node or block x.
as_flowable(x, width) ==
  CASE x.cls = "Verse" -> Verse_as_flowable(x, width)
    [] x.cls = "Chorus" -> Chorus_as_flowable(x, width)
    [] x.cls = "Tablature" -> Tablature_as_flowable(x, width)
    [] OTHER -> line_as_flowable(x, width)

\* ------------------------------------------------------------------ scripts/converter.py

\* converter.Empty(lineno)
Empty(lineno) == [cls |-> "Empty", lineno |-> lineno]

\* converter.Line(value, lineno), a class apart from the parser's Line
converter_Line(value, lineno) ==
  [cls |-> "converter.Line", value |-> value, lineno |-> lineno]

\* converter.Chord(value, lineno)
Chord(value, lineno) == [cls |-> "Chord", value |-> value, lineno |-> lineno]

\* The characters [A-H] of CHORD_REGEXP matches.
ChordLetters == {"A", "B", "C", "D", "E", "F", "G", "H"}

\* The Python position at which the run of white space of s that starts at
\* position pos ends: what \s* takes.
end_of_space(s, pos) ==
  Min({i \in pos..Len(s) : i = Len(s) \/ s[i + 1] \notin Whitespace})

\* The Python position at which the run of other characters of s that starts
\* at position pos ends: what \S* takes.
end_of_word(s, pos) ==
  Min({i \in pos..Len(s) : i = Len(s) \/ s[i + 1] \in Whitespace})

\* The match of CHORD_REGEXP, \s*[A-H]\S*, in s from position pos with the
\* white space ending at position q: None unless a letter of A to H stands
\* there; start, end and group are Python's c.start(), c.end(), c.group(0).
chord_regexp_match(s, pos, q) ==
  IF q < Len(s) /\ s[q + 1] \in ChordLetters
  THEN [cls |-> "Match", start |-> pos, end |-> end_of_word(s, q),
        group |-> SubSeq(s, pos + 1, end_of_word(s, q))]
  ELSE None

\* CHORD_REGEXP.match(s)
CHORD_REGEXP_match(s) == chord_regexp_match(s, 0, end_of_space(s, 0))

RECURSIVE CHORD_REGEXP_finditer_from(_, _)
\* The matches of CHORD_REGEXP in s from position pos on, left to right and
\* not overlapping.
CHORD_REGEXP_finditer_from(s, pos) ==
  IF pos > Len(s) THEN <<>>
  ELSE IF chord_regexp_match(s, pos, end_of_space(s, pos)) = None
  THEN CHORD_REGEXP_finditer_from(s, pos + 1)
  ELSE <<chord_regexp_match(s, pos, end_of_space(s, pos))>>
         \o CHORD_REGEXP_finditer_from(s, end_of_word(s, end_of_space(s, pos)))

\* CHORD_REGEXP.finditer(s)
CHORD_REGEXP_finditer(s) == CHORD_REGEXP_finditer_from(s, 0)

RECURSIVE split_whitespace(_)
\* str.split() without a separator: the runs of characters other than white
\* space.
split_whitespace(s) ==
  IF end_of_space(s, 0) = Len(s) THEN <<>>
  ELSE <<SubSeq(s, end_of_space(s, 0) + 1, end_of_word(s, end_of_space(s, 0)))>>
         \o split_whitespace(SubSeq(s, end_of_word(s, end_of_space(s, 0)) + 1, Len(s)))

\* retval[:pos] + '[' + crd + ']' + retval[pos:], a slice position beyond
\* the end of retval standing for its end.
with_chord_at(retval, pos, crd) ==
  SubSeq(retval, 1, Min({pos, Len(retval)})) \o <<"[">> \o crd \o <<"]">>
    \o SubSeq(retval, Min({pos, Len(retval)}) + 1, Len(retval))

RECURSIVE combine_loop(_, _, _, _)
\* The loop of combine over the matches cs[n..], extra being the number of
\* characters put into retval so far.
combine_loop(retval, cs, n, extra) ==
  IF n > Len(cs) THEN retval
  ELSE combine_loop(
         with_chord_at(retval,
                       cs[n].start + (Len(cs[n].group) - Len(lstrip(cs[n].group))) + extra,
                       lstrip(cs[n].group)),
         cs, n + 1, extra + Len(lstrip(cs[n].group)) + 2)

\* combine(chord, line)
combine(chord, line) == combine_loop(line.value, CHORD_REGEXP_finditer(chord.value), 1, 0)

\* What the first loop of convert appends to parsed for the line l, the
\* lineno-th of the input.
parsed_line(l, lineno) ==
  IF strip(l) = <<>> THEN Empty(lineno)
  ELSE IF \E n \in DOMAIN split_whitespace(l) :
            CHORD_REGEXP_match(split_whitespace(l)[n]) = None
  THEN converter_Line(rstrip(l), lineno)
  ELSE Chord(rstrip(l), lineno)

\* ------------------------------------------------------------------ generator.py

\* The dictionary d with d[key] = value.
put(d, key, value) ==
  [k \in DOMAIN d \cup {key} |-> IF k = key THEN value ELSE d[k]]

\* klass('', data, self.settings, f, self.context) with the slug lines 88-89
\* give it: the name of its file. metadata is the data of the file.
loaded(file) ==
  [cls |-> file.klass, source_path |-> file.f, slug |-> file.f, metadata |-> file.data]

\* One turn of `for artist in ('performer', 'composer')` on the object of
\* r: a slug that is in _artists links the artist, a slug that is not
\* records a failure, and the `continue` of line 101 goes on with this loop.
link_artist(r, artist, slug, _artists) ==
  IF slug = None THEN r
  ELSE IF slug.value \in DOMAIN _artists
  THEN [r EXCEPT !.obj.metadata[artist] = _artists[slug.value]]
  ELSE [r EXCEPT !.failed = TRUE]

\* Lines 91-101 on a Song.
link_song(obj, _artists) ==
  link_artist(link_artist([obj |-> obj, failed |-> FALSE], "performer",
                          obj.metadata.performer_slug, _artists),
              "composer", obj.metadata.composer_slug, _artists)

RECURSIVE songs_of(_, _)
\* The songs lines 105-107 append: those of the slugs that are in _songs.
songs_of(slugs, _songs) ==
  IF slugs = <<>> THEN <<>>
  ELSE IF Head(slugs) \in DOMAIN _songs
  THEN <<_songs[Head(slugs)]>> \o songs_of(Tail(slugs), _songs)
  ELSE songs_of(Tail(slugs), _songs)

\* Lines 103-111 on a Collection: a slug that is not in _songs records a
\* failure, and the `continue` of line 111 goes on with the loop over the
\* slugs.
link_collection(obj, _songs) ==
  [obj |-> [obj EXCEPT !.metadata.songs = songs_of(obj.metadata.song_slugs, _songs)],
   failed |-> \E n \in DOMAIN obj.metadata.song_slugs :
                obj.metadata.song_slugs[n] \notin DOMAIN _songs]

\* Lines 91-111 on the object just loaded: the object with its links, and
\* whether _add_failed_source_path was called.
linked(obj, g) ==
  CASE obj.cls = "Song" -> link_song(obj, g._artists)
    [] obj.cls = "Collection" -> link_collection(obj, g._songs)
    [] OTHER -> [obj |-> obj, failed |-> FALSE]

\* getattr(self, '%ss' % klass.__name__.lower()), by name.
container(klass) ==
  CASE klass = "Artist" -> "artists"
    [] klass = "Song" -> "songs"
    [] klass = "Collection" -> "collections"

\* The _dict that goes with klass in the loop of line 53, by name.
dict_of(klass) ==
  CASE klass = "Artist" -> "_artists"
    [] klass = "Song" -> "_songs"
    [] klass = "Collection" -> "_collections"

\* Lines 115-117: container.append(obj), self.add_source_path(obj) and
\* _dict[obj.slug] = obj.
registered(g, obj) ==
  [g EXCEPT ![container(g.pc)] = Append(@, obj),
            !.source_paths = @ \cup {obj.source_path},
            ![dict_of(g.pc)] = put(@, obj.slug, obj)]

\* Lines 91-117 on the file f, r being what the links left of its object:
\* a failure is recorded, and the object is cached and registered.
processed(g, f, r) ==
  registered([g EXCEPT !.failed = IF r.failed THEN @ \cup {f} ELSE @,
                       !.cache = put(@, f, r.obj)],
             r.obj)

\* The body of `for f in self.get_files(...)` on one file: an object from
\* the cache is registered as it is; a file that cannot be loaded is
\* recorded as failed and the loop goes on with the next file; any other
\* file is loaded, linked, cached and registered.
visited(g, file) ==
  IF file.f \in DOMAIN g.cache THEN registered(g, g.cache[file.f])
  ELSE IF file.broken THEN [g EXCEPT !.failed = @ \cup {file.f}]
  ELSE processed(g, file.f, linked(loaded(file), g))

\* The files self.get_files gives for klass.
get_files(g, klass) == {file.f : file \in {x \in g.files : x.klass = klass}}

\* The class after klass in the loop of line 53, "finalize" after the last.
next_klass(klass) ==
  CASE klass = "Artist" -> "Song"
    [] klass = "Song" -> "Collection"
    [] klass = "Collection" -> "finalize"

\* ------------------------------------------------------------------ inputs

\* The lines texts are made of: one of each kind the tokenizer tells apart.
L_blank == <<>>

L_hash == <<"#", " ", "x">>

L_soc == <<"{", "s", "o", "c", "}">>

L_eoc == <<"{", "e", "o", "c", "}">>

L_sot == <<"{", "s", "o", "t", "}">>

L_eot == <<"{", "e", "o", "t", "}">>

L_comment == <<"{", "c", ":", " ", "h", "i", "}">>

L_title == <<"{", "t", "i", "t", "l", "e", ":", " ", "T", "}">>

L_subtitle == <<"{", "s", "t", ":", " ", "S", "}">>

L_define == <<"{", "d", "e", "f", "i", "n", "e", " ", "X", "}">>

L_unknown == <<"{", "x", "}">>

L_foo == <<"f", "o", "o">>

L_hello == <<"[", "C", "]", "H", "e", "l", "l", "o", " ", "[", "G", "]", "w", "o", "r", "l", "d">>

Vocabulary ==
  {L_blank, L_hash, L_soc, L_eoc, L_sot, L_eot, L_comment,
   L_title, L_subtitle, L_define, L_unknown, L_foo, L_hello}

\* The lines longer texts are made of: one of each kind the assembler tells
\* apart.
CoreVocabulary == {L_blank, L_soc, L_eoc, L_sot, L_eot, L_comment, L_foo}

\* The characters single lines are made of.
GenAlphabet == {"[", "]", "a", " "}

\* The texts of at most MaxLines lines of Vocabulary, joined by newlines.
VocabularyTexts ==
  {join(ls, "\n") : ls \in UNION {[1..n -> Vocabulary] : n \in 1..MaxLines}}

\* The texts of at most MaxCoreLines lines of CoreVocabulary.
CoreTexts ==
  {join(ls, "\n") : ls \in UNION {[1..n -> CoreVocabulary] : n \in 1..MaxCoreLines}}

\* The one-line texts of at most MaxChars characters of GenAlphabet.
GenTexts == UNION {[1..n -> GenAlphabet] : n \in 1..MaxChars}

\* The characters directive lines are made of.
DirectiveAlphabet == {"{", "}", "c", ":", " ", "x"}

\* The one-line texts of at most MaxDirectiveChars characters of
\* DirectiveAlphabet.
DirectiveTexts == UNION {[1..n -> DirectiveAlphabet] : n \in 1..MaxDirectiveChars}

\* The characters texts to wrap are made of.
WrapAlphabet == {"[", "]", "a", " ", "\t"}

\* The texts of at most MaxWrapChars characters of WrapAlphabet, the empty
\* text among them.
WrapTexts == UNION {[1..n -> WrapAlphabet] : n \in 0..MaxWrapChars}

\* The widths handed to break_line, break_chordline and the renderers.
Widths == 0..MaxWidth

\* The pieces lines to render are made of: two chord entries, a letter, a
\* space and the two brackets.
RenderPieces ==
  {<<"[", "a", "]">>, <<"[", "A", "]">>, <<"a">>, <<" ">>, <<"[">>, <<"]">>}

\* The lines of at most MaxPieces pieces of RenderPieces.
RenderTexts ==
  {Concat(ps) : ps \in UNION {[1..n -> RenderPieces] : n \in 1..MaxPieces}}

\* Longer lines to render: two chords on two words, two adjacent chords
\* before a word, a chord on the middle one of three words.
LongRenderTexts ==
  {<<"[", "a", "]", "a", " ", "[", "A", "]", "a">>,
   <<"[", "a", "]", "[", "A", "]", " ", "a">>,
   <<"a", " ", "[", "a", "]", "a", " ", "a">>}

\* The nodes parse makes of the lines to render and of the lines of
\* Vocabulary.
RenderNodes ==
  {parse_line(v, 1) : v \in RenderTexts \cup LongRenderTexts \cup Vocabulary}

\* The nodes put into the blocks to render: a lyric line, a chord line, a
\* blank, a comment, a hash comment and a marker.
BlockLineNodes ==
  {Line(<<"a", " ", "a">>, 2),
   ChordLine(<<"[", "a", "]", "a", " ", "[", "A", "]", "a">>, 2),
   EmptyLine(2), Comment(2, <<"h", "i">>), HashComment(L_hash, 2), EndOfChorus(2)}

\* The blocks to render: a Verse, a Chorus and a Tablature with at most
\* MaxBlockLines lines.
RenderBlocks ==
  {[b EXCEPT !.lines = ls] :
     b \in {Verse_end(Verse), Chorus(StartOfChorus(1)), Tablature(StartOfTablature(1))},
     ls \in UNION {[1..n -> BlockLineNodes] : n \in 0..MaxBlockLines}}

\* The text '{soc}', '[C]Hello [G]world', '{eoc}'.
HelloChorusText == join(<<L_soc, L_hello, L_eoc>>, "\n")

\* The nodes handed to a block's append through the block's own interface.
AppendNodes == {Line(<<"a">>, 2), EmptyLine(3)}

\* The lines handed to convert, without the line terminator that strip,
\* split and rstrip drop with the other white space: an empty line, a line
\* of spaces, two chord lines, a chord line with a trailing space, two lyric
\* lines and a lyric line whose first word starts like a chord.
ConverterLines ==
  {<<>>, <<" ", " ">>, <<"A">>, <<" ", "A", " ", " ", "B", "m">>, <<"A", "m", " ">>,
   <<"a", "b">>, <<"a", " ", "b", "c", " ">>, <<"A", " ", "b">>}

\* The inputs of convert: at most MaxConverterLines lines of ConverterLines.
ConverterInputs == UNION {[1..n -> ConverterLines] : n \in 0..MaxConverterLines}

\* The source files of the generator: f is the path, and the slug, of the
\* file, broken says that loading it raises, data is what yaml.load reads.
File(f, klass, broken, data) == [f |-> f, klass |-> klass, broken |-> broken, data |-> data]

\* The artist file: none, one that loads or one that does not.
ArtistFiles ==
  {{}, {File("a", "Artist", FALSE, [name |-> "a"])}, {File("a", "Artist", TRUE, [name |-> "a"])}}

\* The performer-slug and composer-slug of a song file: absent, the slug of
\* the artist file, or a slug no file has.
ArtistSlugs == {None, Str("a"), Str("x")}

\* The data of a song file; performer and composer are the keys line 96
\* sets, None while they are not set.
SongData ==
  {[performer_slug |-> p, composer_slug |-> c, performer |-> None, composer |-> None] :
     p \in ArtistSlugs, c \in ArtistSlugs}

\* The song files: at most s1, with any slugs, and s2, without slugs.
SongFiles ==
  {one \cup two :
     one \in {{}} \cup {{File("s1", "Song", FALSE, d)} : d \in SongData},
     two \in {{}, {File("s2", "Song", FALSE,
                        [performer_slug |-> None, composer_slug |-> None,
                         performer |-> None, composer |-> None])}}}

\* The song-slugs of a collection file: at most MaxSongSlugs slugs, of the
\* two song files or of no file.
SongSlugs == UNION {[1..n -> {"s1", "s2", "y"}] : n \in 0..MaxSongSlugs}

\* The collection file: none, or one with song-slugs.
CollectionFiles ==
  {{}} \cup {{File("c", "Collection", FALSE, [song_slugs |-> ss, songs |-> <<>>])} :
               ss \in SongSlugs}

\* What get_cached_data holds from an earlier run: nothing, or the object of
\* the song file s1.
Caches ==
  {<<>>, put(<<>>, "s1", loaded(File("s1", "Song", FALSE,
                                      [performer_slug |-> None, composer_slug |-> None,
                                       performer |-> None, composer |-> None])))}

\* ------------------------------------------------------------------ state

VARIABLES
  t,            \* the text given to parse
  pc,           \* where syntax_analysis(parse(t)) stands
  tokens,       \* the nodes parse returned, as they were returned
  input,        \* the list parse returned, popped by the consume_* calls
  retval,       \* syntax_analysis's retval
  save_length,  \* syntax_analysis's save_length
  exc,          \* the exception that left syntax_analysis, None if none
  returned,     \* the value syntax_analysis returned, None if none (yet)
  obj,          \* a block object used through its own interface, None if none
  call,         \* the last call on obj: its name, obj before it, its exception
  converter,    \* convert(lines) of scripts/converter.py: its locals and where it stands
  generator     \* Generator.generate_context of generator.py: its locals and where it stands

vars == <<t, tokens, pc, input, retval, save_length, exc, returned, obj, call,
          converter, generator>>

parserVars == <<t, tokens, pc, input, retval, save_length, exc, returned>>

blockVars == <<obj, call>>

scriptVars == <<converter, generator>>

\* convert has not been called.
NoConvert ==
  [pc |-> "idle", lines |-> <<>>, parsed |-> <<>>, retval |-> <<>>, waiting |-> None,
   returned |-> None]

\* generate_context has not been called.
NoGenerate == [pc |-> "idle"]

\* No call on a block object yet.
NoCall == [op |-> "none", before |-> None, exc |-> None]

\* A call of a function or of a method of obj: its name, obj before it, its
\* width argument, the value it returned and the exception it raised.
Call(op, before, width, ret, e) ==
  [op |-> op, before |-> before, width |-> width, ret |-> ret, exc |-> e]

\* ------------------------------------------------------------------ syntax_analysis(parse(t))

Init ==
  /\ t \in VocabularyTexts \cup CoreTexts \cup GenTexts \cup {HelloChorusText}
  /\ tokens = <<>>
  /\ pc = "parse"
  /\ input = <<>>
  /\ retval = <<>>
  /\ save_length = 0
  /\ exc = None
  /\ returned = None
  /\ obj = None
  /\ call = NoCall
  /\ converter = NoConvert
  /\ generator = NoGenerate

\* input = parse(t), and retval = [] at the start of syntax_analysis.
Parse ==
  /\ pc = "parse"
  /\ input' = parse(t)
  /\ tokens' = input'
  /\ pc' = "while"
  /\ UNCHANGED <<t, retval, save_length, exc, returned, blockVars>>
  /\ UNCHANGED scriptVars

\* `while input:` with `save_length = len(input)`, or `return retval`.
While ==
  /\ pc = "while"
  /\ IF input # <<>>
     THEN /\ save_length' = Len(input)
          /\ pc' = "consume_extra"
          /\ UNCHANGED returned
     ELSE /\ returned' = List(retval)
          /\ pc' = "returned"
          /\ UNCHANGED save_length
  /\ UNCHANGED <<t, tokens, input, retval, exc, blockVars>>
  /\ UNCHANGED scriptVars

\* `retval += r` for the outcome r of a consume_* call, then on to pc next:
\* an exception of the call leaves syntax_analysis, and so does the
\* TypeError of += when the call returned something that is not a list.
Extend(r, next) ==
  /\ input' = r.input
  /\ IF r.exc # None
     THEN exc' = r.exc /\ pc' = "raised" /\ UNCHANGED retval
     ELSE IF r.ret.cls # "list"
     THEN /\ exc' = Raise("TypeError", "object is not iterable", <<>>)
          /\ pc' = "raised"
          /\ UNCHANGED retval
     ELSE retval' = retval \o r.ret.items /\ pc' = next /\ UNCHANGED exc
  /\ UNCHANGED <<t, tokens, save_length, returned, blockVars>>
  /\ UNCHANGED scriptVars

\* retval += consume_extra(input)
ConsumeExtra == pc = "consume_extra" /\ Extend(consume_extra(input), "consume_verse")

\* retval += consume_verse(input)
ConsumeVerse == pc = "consume_verse" /\ Extend(consume_verse(input), "consume_chorus")

\* retval += consume_chorus(input)
ConsumeChorus == pc = "consume_chorus" /\ Extend(consume_chorus(input), "consume_tablature")

\* retval += consume_tablature(input)
ConsumeTablature == pc = "consume_tablature" /\ Extend(consume_tablature(input), "check")

\* The text of str(x) after the line number, for the marker commands; the
\* class name stands for the text of any other node.
str_text(x) ==
  CASE x.cls = "StartOfChorus" -> "{start_of_chorus}"
    [] x.cls = "EndOfChorus" -> "{end_of_chorus}"
    [] x.cls = "StartOfTablature" -> "{start_of_tab}"
    [] x.cls = "EndOfTablature" -> "{end_of_tab}"
    [] OTHER -> x.cls

\* The mutant of Check: the loop goes on though nothing was consumed.
CheckWithoutRaise ==
  /\ pc = "check"
  /\ pc' = "while"
  /\ UNCHANGED <<t, tokens, input, retval, save_length, exc, returned, obj, call>>
  /\ UNCHANGED scriptVars

\* `if save_length == len(input): raise SyntaxError(...)`, naming input[0].
Check ==
  /\ pc = "check"
  /\ IF save_length = Len(input)
     THEN /\ exc' = Raise("SyntaxError", "Cannot make sense of " \o str_text(input[1]),
                          <<input[1].lineno>>)
          /\ pc' = "raised"
     ELSE pc' = "while" /\ UNCHANGED exc
  /\ UNCHANGED <<t, tokens, input, retval, save_length, returned, blockVars>>
  /\ UNCHANGED scriptVars

Next ==
  \/ Parse
  \/ While
  \/ ConsumeExtra
  \/ ConsumeVerse
  \/ ConsumeChorus
  \/ ConsumeTablature
  \/ Check

Spec == Init /\ [][Next]_vars

\* The texts of at most MaxLiveLines lines of CoreVocabulary.
LiveTexts ==
  {join(ls, "\n") : ls \in UNION {[1..n -> CoreVocabulary] : n \in 1..MaxLiveLines}}

\* syntax_analysis is called with the list parse made of a text.
LiveInit ==
  /\ t \in LiveTexts
  /\ tokens = parse(t)
  /\ pc = "while"
  /\ input = parse(t)
  /\ retval = <<>>
  /\ save_length = 0
  /\ exc = None
  /\ returned = None
  /\ obj = None
  /\ call = NoCall
  /\ converter = NoConvert
  /\ generator = NoGenerate

\* The steps of syntax_analysis.
LiveNext ==
  \/ While
  \/ ConsumeExtra
  \/ ConsumeVerse
  \/ ConsumeChorus
  \/ ConsumeTablature
  \/ Check

\* syntax_analysis(input) run to its end: a call under way takes its next
\* step.
LiveSpec == LiveInit /\ [][LiveNext]_vars /\ WF_vars(LiveNext)

\* ------------------------------------------------------------------ parse(t) alone

TokenizerInit ==
  /\ t \in DirectiveTexts \cup VocabularyTexts
  /\ tokens = <<>>
  /\ pc = "parse"
  /\ input = <<>>
  /\ retval = <<>>
  /\ save_length = 0
  /\ exc = None
  /\ returned = None
  /\ obj = None
  /\ call = NoCall
  /\ converter = NoConvert
  /\ generator = NoGenerate

TokenizerNext == Parse

TokenizerSpec == TokenizerInit /\ [][TokenizerNext]_vars

\* ------------------------------------------------------------------ break_line and break_chordline

WrapInit ==
  /\ t \in WrapTexts
  /\ tokens = <<>>
  /\ pc = "idle"
  /\ input = <<>>
  /\ retval = <<>>
  /\ save_length = 0
  /\ exc = None
  /\ returned = None
  /\ obj = None
  /\ call = NoCall
  /\ converter = NoConvert
  /\ generator = NoGenerate

\* break_line(t, width)
BreakLine ==
  /\ \E width \in Widths :
       call' = Call("break_line", None, width, List(break_line(t, width)), None)
  /\ UNCHANGED <<parserVars, obj>>
  /\ UNCHANGED scriptVars

\* break_chordline(t, width)
BreakChordline ==
  /\ \E width \in Widths :
       call' = Call("break_chordline", None, width, List(break_chordline(t, width)), None)
  /\ UNCHANGED <<parserVars, obj>>
  /\ UNCHANGED scriptVars

WrapNext ==
  \/ BreakLine
  \/ BreakChordline

WrapSpec == WrapInit /\ [][WrapNext]_vars

\* ------------------------------------------------------------------ as_html, as_pdf and as_flowable

RenderInit ==
  /\ t = <<>>
  /\ tokens = <<>>
  /\ pc = "idle"
  /\ input = <<>>
  /\ retval = <<>>
  /\ save_length = 0
  /\ exc = None
  /\ returned = None
  /\ obj \in RenderNodes \cup RenderBlocks
  /\ call = NoCall
  /\ converter = NoConvert
  /\ generator = NoGenerate

\* The call op(width) on obj has left r: obj is the object after the call,
\* and the call is recorded with what it returned or raised.
Returns(op, width, r) ==
  /\ obj' = r.self
  /\ call' = Call(op, obj, width, r.ret, r.exc)
  /\ UNCHANGED parserVars
  /\ UNCHANGED scriptVars

\* obj.as_html()
AsHtml == Returns("as_html", 0, as_html(obj))

\* obj.as_pdf(width)
AsPdf == \E width \in Widths : Returns("as_pdf", width, as_pdf(obj, width))

\* obj.as_flowable(width)
AsFlowable == \E width \in Widths : Returns("as_flowable", width, as_flowable(obj, width))

RenderNext ==
  \/ AsHtml
  \/ AsPdf
  \/ AsFlowable

RenderSpec == RenderInit /\ [][RenderNext]_vars

\* ------------------------------------------------------------------ the block classes

\* The block has been through its end operation: Verse.end sets ended,
\* Chorus.end and Tablature.end set ends.
EndCalled(b) == IF b.cls = "Verse" THEN b.ended ELSE b.ends # None

BlockInit ==
  /\ t = <<>>
  /\ tokens = <<>>
  /\ pc = "idle"
  /\ input = <<>>
  /\ retval = <<>>
  /\ save_length = 0
  /\ exc = None
  /\ returned = None
  /\ obj \in {Verse, Chorus(StartOfChorus(1)), Tablature(StartOfTablature(1))}
  /\ call = NoCall
  /\ converter = NoConvert
  /\ generator = NoGenerate

\* obj.append(line)
BlockAppend ==
  /\ Len(obj.lines) < MaxAppends
  /\ \E line \in AppendNodes :
       LET r == CASE obj.cls = "Verse" -> Verse_append(obj, line)
                  [] obj.cls = "Chorus" -> Chorus_append(obj, line)
                  [] obj.cls = "Tablature" -> Tablature_append(obj, line)
       IN  /\ obj' = r.self
           /\ call' = [op |-> "append", before |-> obj, exc |-> r.exc]
  /\ UNCHANGED parserVars
  /\ UNCHANGED scriptVars

\* obj.end() of a Verse, obj.end(end) of a Chorus or a Tablature
BlockEnd ==
  /\ obj' = CASE obj.cls = "Verse" -> Verse_end(obj)
              [] obj.cls = "Chorus" -> Chorus_end(obj, EndOfChorus(9))
              [] obj.cls = "Tablature" -> Tablature_end(obj, EndOfTablature(9))
  /\ call' = [op |-> "end", before |-> obj, exc |-> None]
  /\ UNCHANGED parserVars
  /\ UNCHANGED scriptVars

BlockNext ==
  \/ BlockAppend
  \/ BlockEnd

BlockSpec == BlockInit /\ [][BlockNext]_vars

\* ------------------------------------------------------------------ convert(lines)

\* The parser and the block object at rest.
ParserIdle ==
  /\ t = <<>>
  /\ tokens = <<>>
  /\ pc = "idle"
  /\ input = <<>>
  /\ retval = <<>>
  /\ save_length = 0
  /\ exc = None
  /\ returned = None
  /\ obj = None
  /\ call = NoCall

ConverterInit ==
  /\ ParserIdle
  /\ \E lines \in ConverterInputs : converter = [NoConvert EXCEPT !.pc = "for", !.lines = lines]
  /\ generator = NoGenerate

\* The first loop of convert: parsed holds an Empty, a Line or a Chord for
\* each line; then retval = [] and waiting = None.
ConvertClassify ==
  /\ converter.pc = "for"
  /\ converter' = [converter EXCEPT
                     !.pc = "while",
                     !.parsed = [n \in DOMAIN converter.lines |->
                                   parsed_line(converter.lines[n], n)],
                     !.retval = <<>>,
                     !.waiting = None]
  /\ UNCHANGED <<parserVars, blockVars, generator>>

\* What one turn of the while loop of convert leaves of c, k being the
\* object popped from parsed.
after_pop(c, k) ==
  IF k.cls = "Empty" THEN [c EXCEPT !.retval = Append(@, <<>>)]
  ELSE IF k.cls = "converter.Line"
  THEN IF c.waiting # None
       THEN [c EXCEPT !.retval = Append(@, combine(c.waiting, k)), !.waiting = None]
       ELSE [c EXCEPT !.retval = Append(@, k.value)]
  ELSE IF c.waiting # None
       THEN [c EXCEPT !.retval = Append(@, c.waiting.value), !.waiting = k]
       ELSE [c EXCEPT !.waiting = k]

\* One turn of `while parsed:`, k = parsed.pop(0).
ConvertPop ==
  /\ converter.pc = "while"
  /\ converter.parsed # <<>>
  /\ converter' = after_pop([converter EXCEPT !.parsed = Tail(@)], Head(converter.parsed))
  /\ UNCHANGED <<parserVars, blockVars, generator>>

\* return '\n'.join(retval), once parsed is empty.
ConvertReturn ==
  /\ converter.pc = "while"
  /\ converter.parsed = <<>>
  /\ converter' = [converter EXCEPT !.pc = "returned",
                                    !.returned = Str(join(converter.retval, "\n"))]
  /\ UNCHANGED <<parserVars, blockVars, generator>>

ConverterNext ==
  \/ ConvertClassify
  \/ ConvertPop
  \/ ConvertReturn

ConverterSpec == ConverterInit /\ [][ConverterNext]_vars

\* ------------------------------------------------------------------ Generator.generate_context

\* The start of generate_context on the files files with the cache cache:
\* empty containers and dictionaries, in the loop of line 53 at Artist.
Generating(files, cache) ==
  [pc |-> "Artist", files |-> files,
   todo |-> {file.f : file \in {x \in files : x.klass = "Artist"}},
   artists |-> <<>>, songs |-> <<>>, collections |-> <<>>,
   _artists |-> <<>>, _songs |-> <<>>, _collections |-> <<>>,
   cache |-> cache, failed |-> {}, source_paths |-> {}]

GeneratorInit ==
  /\ ParserIdle
  /\ converter = NoConvert
  /\ \E a \in ArtistFiles, ss \in SongFiles, c \in CollectionFiles, cache \in Caches :
       generator = Generating(a \cup ss \cup c, cache)

\* One turn of `for f in self.get_files(...)`, the files in any order.
Visit ==
  /\ generator.pc \in {"Artist", "Song", "Collection"}
  /\ \E file \in generator.files :
       /\ file.f \in generator.todo
       /\ generator' = visited([generator EXCEPT !.todo = @ \ {file.f}], file)
  /\ UNCHANGED <<parserVars, blockVars, converter>>

\* The files of a class are through: the loop of line 53 goes on with the
\* next class, or ends.
NextClass ==
  /\ generator.pc \in {"Artist", "Song", "Collection"}
  /\ generator.todo = {}
  /\ generator' = [generator EXCEPT
                     !.pc = next_klass(generator.pc),
                     !.todo = IF generator.pc = "Collection" THEN {}
                              ELSE get_files(generator, next_klass(generator.pc))]
  /\ UNCHANGED <<parserVars, blockVars, converter>>

\* Lines 119-122, which leave the containers as they are.
Finalize ==
  /\ generator.pc = "finalize"
  /\ generator' = [generator EXCEPT !.pc = "done"]
  /\ UNCHANGED <<parserVars, blockVars, converter>>

GeneratorNext ==
  \/ Visit
  \/ NextClass
  \/ Finalize

GeneratorSpec == GeneratorInit /\ [][GeneratorNext]_vars

\* ------------------------------------------------------------------ what the claims speak of

\* The nodes parse made of the text.
Tokens == tokens

\* The lines of the text.
TextLines == split(t, "\n")

\* syntax_analysis has returned; Document is what it returned.
Returned == pc = "returned"

Document == returned.items

\* x is a block.
IsBlock(x) == isinstance(x, {"Verse"})

\* The line nodes the state holds: those still in the input and those in the
\* document under construction, at top level or in a block.
StateNodes ==
  {input[k] : k \in DOMAIN input}
    \cup {retval[k] : k \in {m \in DOMAIN retval : ~IsBlock(retval[m])}}
    \cup UNION {{retval[k].lines[j] : j \in DOMAIN retval[k].lines} :
                  k \in {m \in DOMAIN retval : IsBlock(retval[m])}}

ChordLineNodes == {x \in StateNodes : x.cls = "ChordLine"}

RECURSIVE MarkupBefore(_, _)
\* The width of the bracket markup of the matches ms[1..n-1].
MarkupBefore(ms, n) ==
  IF n <= 1 THEN 0 ELSE MarkupBefore(ms, n - 1) + (ms[n - 1].end - ms[n - 1].start)

\* The column of the bare text of v at which the n-th bracket of v stood.
BareColumn(v, n) == finditer(v)[n].start - MarkupBefore(finditer(v), n)

RECURSIVE LaidOutAt(_, _)
\* The column of the chords line at which the n-th chord of the list starts
\* when every chord is written as `offset` spaces and its text.
LaidOutAt(chords, n) ==
  IF n = 1 THEN chords[1][1]
  ELSE LaidOutAt(chords, n - 1) + Len(chords[n - 1][2]) + chords[n][1]

HelloWorld == <<"H", "e", "l", "l", "o", " ", "w", "o", "r", "l", "d">>

\* The text '{eoc}\nfoo'.
EocFooText == join(<<L_eoc, L_foo>>, "\n")

\* The document is one Chorus holding one ChordLine of bare text
\* 'Hello world' with the chords C and G at the offsets c and g.
HelloDocument(c, g) ==
  /\ Len(Document) = 1
  /\ Document[1].cls = "Chorus"
  /\ Len(Document[1].lines) = 1
  /\ Document[1].lines[1].cls = "ChordLine"
  /\ Document[1].lines[1].bare = HelloWorld
  /\ Document[1].lines[1].chords = <<<<c, <<"C">>>>, <<g, <<"G">>>>>>

\* C1 as stated: every chord of a ChordLine is stored with the column of the
\* bare text at which its bracket stood, and '{soc}', '[C]Hello [G]world',
\* '{eoc}' gives one Chorus of one ChordLine with bare text 'Hello world' and
\* chords [(0,'C'), (6,'G')].
C1_OffsetsAreBareColumns ==
  /\ \A x \in ChordLineNodes :
       /\ Len(x.chords) = Len(finditer(x.value))
       /\ \A n \in DOMAIN x.chords :
            x.chords[n] = <<BareColumn(x.value, n), finditer(x.value)[n].v>>
  /\ (t = HelloChorusText /\ Returned) => HelloDocument(0, 6)

\* The columns between the end of the previous chord's text, laid out at its
\* bracket's bare column, and the n-th bracket's bare column.
GapBefore(v, n) ==
  BareColumn(v, n) - (BareColumn(v, n - 1) + Len(finditer(v)[n - 1].v))

\* C1 amended: every chord of a ChordLine is stored with its text and, for
\* the first chord, the bare column of its bracket, for every later chord the
\* gap between the end of the previous chord's text (laid out at its own
\* bare column) and its bracket's bare column, 1 where that gap is 0 or
\* less; and '{soc}', '[C]Hello [G]world', '{eoc}' gives one Chorus of one
\* ChordLine with bare text 'Hello world' and chords [(0,'C'), (5,'G')].
C1_OffsetsAreGaps ==
  /\ \A x \in ChordLineNodes :
       /\ Len(x.chords) = Len(finditer(x.value))
       /\ \A n \in DOMAIN x.chords :
            /\ x.chords[n][2] = finditer(x.value)[n].v
            /\ x.chords[n][1] =
                 IF n = 1 THEN BareColumn(x.value, 1)
                 ELSE IF GapBefore(x.value, n) <= 0 THEN 1
                 ELSE GapBefore(x.value, n)
  /\ (t = HelloChorusText /\ Returned) => HelloDocument(0, 5)

\* The example text has been assembled, its G chord stored five columns
\* after the end of C.
C1_Witness ==
  /\ t = HelloChorusText
  /\ Returned
  /\ HelloDocument(0, 5)

\* C2 as stated: the stored offsets of every ChordLine are strictly
\* increasing along the list, any two differing by at least 1.
C2_OffsetsStrictlyIncreasing ==
  \A x \in ChordLineNodes :
    \A m, n \in DOMAIN x.chords :
      m < n => x.chords[n][1] - x.chords[m][1] >= 1

\* C2 amended: the columns at which the stored offsets lay the chords out
\* (each offset counted from the end of the previous chord's text) are
\* strictly increasing, any two differing by at least 1; of the stored
\* offsets themselves the first is at least 0 and every later one at least
\* 1, and they need not increase.
C2_PositionsStrictlyIncreasing ==
  \A x \in ChordLineNodes :
    /\ \A m, n \in DOMAIN x.chords :
         m < n => LaidOutAt(x.chords, n) - LaidOutAt(x.chords, m) >= 1
    /\ \A n \in DOMAIN x.chords :
         x.chords[n][1] >= (IF n = 1 THEN 0 ELSE 1)

\* A ChordLine of two adjacent brackets, the second of which was given its
\* one column, after a first chord stored further right.
C2_Witness ==
  \E x \in ChordLineNodes :
    /\ Len(x.chords) >= 2
    /\ finditer(x.value)[2].start = finditer(x.value)[1].end
    /\ x.chords[2][1] = 1
    /\ x.chords[1][1] >= 1

\* The token at i is one of the four block markers.
IsMarker(x) ==
  isinstance(x, {"StartOfChorus", "EndOfChorus", "StartOfTablature", "EndOfTablature"})

\* {soc} at line i, {eoc} at line j, and lyric lines and comments only
\* between the two.
ChorusSegments ==
  {ij \in (DOMAIN Tokens) \X (DOMAIN Tokens) :
     /\ ij[1] < ij[2]
     /\ Tokens[ij[1]].cls = "StartOfChorus"
     /\ Tokens[ij[2]].cls = "EndOfChorus"
     /\ \A k \in (ij[1] + 1)..(ij[2] - 1) :
          isinstance(Tokens[k], {"Line", "HashComment", "Comment"})}

\* The places of the document holding a block of class cls started by start.
BlocksStartedBy(cls, start) ==
  {k \in DOMAIN Document : Document[k].cls = cls /\ Document[k].starts = start}

\* C3: when the input holds {soc}, then lyric lines and comments, then {eoc},
\* the document returned holds exactly one Chorus started by that {soc}; its
\* end marker is that {eoc} and its lines are the nodes between the two, in
\* input order. When the input is nothing but such a section, no exception
\* is raised and that Chorus is the whole document.
C3_ChorusSpansItsSection ==
  /\ Returned =>
       \A ij \in ChorusSegments :
         /\ Cardinality(BlocksStartedBy("Chorus", Tokens[ij[1]])) = 1
         /\ \A k \in BlocksStartedBy("Chorus", Tokens[ij[1]]) :
              /\ Document[k].ends = Tokens[ij[2]]
              /\ Document[k].lines = SubSeq(Tokens, ij[1] + 1, ij[2] - 1)
  /\ <<1, Len(Tokens)>> \in ChorusSegments =>
       /\ pc # "raised"
       /\ Returned => Len(Document) = 1

\* A document has been returned for an input with two nodes between {soc}
\* and {eoc}.
C3_Witness ==
  /\ Returned
  /\ \E ij \in ChorusSegments :
       /\ ij[2] - ij[1] >= 3
       /\ \E k \in DOMAIN Document :
            /\ Document[k].cls = "Chorus"
            /\ Len(Document[k].lines) = 2
            /\ Document[k].ends = Tokens[ij[2]]

\* C4 as stated: every block of the document syntax_analysis returns is
\* closed, its ended flag true.
C4_BlocksClosed ==
  Returned => \A k \in DOMAIN Document : IsBlock(Document[k]) => Document[k].ended

\* The token at i opens a block of the kind of startcls, and only lyric,
\* blank and comment nodes follow it to the end of the input.
OpenAt(i, startcls) ==
  /\ Tokens[i].cls = startcls
  /\ \A k \in (i + 1)..Len(Tokens) :
       isinstance(Tokens[k], {"Line", "EmptyLine", "Comment"})

\* For a block of class cls opened by startcls and never ended: no exception
\* when no marker stands before it, and the document returned ends with the
\* one block started there, holding every node after its start marker and
\* no end marker.
UnendedBlockReturned(cls, startcls) ==
  \A i \in DOMAIN Tokens :
    OpenAt(i, startcls) =>
      /\ (\A k \in 1..(i - 1) : ~IsMarker(Tokens[k])) => pc # "raised"
      /\ Returned =>
           /\ Document # <<>>
           /\ BlocksStartedBy(cls, Tokens[i]) = {Len(Document)}
           /\ Document[Len(Document)].lines = SubSeq(Tokens, i + 1, Len(Tokens))
           /\ Document[Len(Document)].ends = None

\* C5: a {soc} followed to the end of the input by lyric, blank and comment
\* nodes only is no error, and the document ends with exactly one Chorus
\* holding all those nodes, with no end marker.
C5_UnendedChorusReturned == UnendedBlockReturned("Chorus", "StartOfChorus")

\* A document has been returned whose last block is a Chorus without end
\* marker holding the two nodes that followed its {soc}.
C5_Witness ==
  /\ Returned
  /\ \E i \in DOMAIN Tokens :
       /\ OpenAt(i, "StartOfChorus")
       /\ Len(Tokens) - i >= 2
       /\ Document[Len(Document)].cls = "Chorus"
       /\ Document[Len(Document)].ends = None
       /\ Len(Document[Len(Document)].lines) = Len(Tokens) - i

\* C6 as stated: a {sot} followed to the end of the input by lyric, blank and
\* comment nodes only is no error of any kind, and the document ends with
\* exactly one Tablature holding the nodes after the {sot}.
C6_UnendedTablatureReturned == UnendedBlockReturned("Tablature", "StartOfTablature")

\* C7 as stated: '{eoc}\nfoo' raises no exception and gives a pass-through
\* node for the {eoc} line followed by one Verse holding the line 'foo'.
C7_StrayEndOfChorusPassedThrough ==
  t = EocFooText =>
    /\ pc # "raised"
    /\ Returned =>
         /\ Len(Document) = 2
         /\ ~IsBlock(Document[1])
         /\ Document[1].lineno = 1
         /\ Document[2].cls = "Verse"
         /\ Document[2].lines = <<Line(L_foo, 2)>>

\* C7 amended: '{eoc}\nfoo' is rejected. parse gives EndOfChorus(1) and
\* Line('foo', 2); the first pass of syntax_analysis's loop consumes
\* nothing, and the SyntaxError 'Cannot make sense of' naming the {eoc} node
\* of line 1 is raised; nothing is returned.
C7_StrayEndOfChorusRejected ==
  t = EocFooText =>
    /\ ~Returned
    /\ returned = None
    /\ pc \notin {"parse", "raised"} =>
         /\ input = <<EndOfChorus(1), Line(L_foo, 2)>>
         /\ retval = <<>>
    /\ pc = "check" => save_length = Len(input)
    /\ pc = "raised" =>
         exc = Raise("SyntaxError", "Cannot make sense of {end_of_chorus}", <<1>>)

\* '{eoc}\nfoo' has been rejected.
C7_Witness ==
  /\ t = EocFooText
  /\ pc = "raised"
  /\ exc.cls = "SyntaxError"
  /\ input # <<>>
  /\ input[1] = EndOfChorus(1)

\* The exception that left syntax_analysis names the line of an
\* UnsupportedCommand.
RaisedAtUnsupported ==
  /\ pc = "raised"
  /\ exc.args # <<>>
  /\ Tokens[exc.args[1]].cls = "UnsupportedCommand"

\* Every UnsupportedCommand renders as the empty string.
UnsupportedRenderEmpty ==
  \A k \in DOMAIN Tokens :
    Tokens[k].cls = "UnsupportedCommand" => UnsupportedCommand_as_html(Tokens[k]) = <<>>

\* The {title: T}, {st: S} and {define X} lines are UnsupportedCommand nodes
\* carrying the directive's name and the value captured.
UnsupportedCaptured ==
  \A k \in {m \in DOMAIN Tokens : Tokens[m].cls = "UnsupportedCommand"} :
    /\ TextLines[k] = L_title => Tokens[k] = UnsupportedCommand("title", <<"T">>, k)
    /\ TextLines[k] = L_subtitle => Tokens[k] = UnsupportedCommand("subtitle", <<"S">>, k)
    /\ TextLines[k] = L_define => Tokens[k] = UnsupportedCommand("define", <<"X">>, k)

\* C8 as stated: a title, subtitle or define directive never makes parse or
\* syntax_analysis raise, wherever its line stands; it is kept in the tree
\* (at top level or in a block) as an UnsupportedCommand with its name and
\* value, and renders as the empty string.
C8_UnsupportedNeverRaises ==
  /\ ~RaisedAtUnsupported
  /\ UnsupportedCaptured
  /\ UnsupportedRenderEmpty
  /\ Returned =>
       \A k \in DOMAIN Tokens :
         Tokens[k].cls = "UnsupportedCommand" =>
           \E m \in DOMAIN Document :
             \/ Document[m] = Tokens[k]
             \/ IsBlock(Document[m])
                  /\ \E j \in DOMAIN Document[m].lines : Document[m].lines[j] = Tokens[k]

\* C8 amended: a title, subtitle or define directive makes nothing raise at
\* top level or directly after a verse: an input without block markers is
\* never rejected, and in every document returned each such directive is a
\* top-level UnsupportedCommand with its name and value, rendering as the
\* empty string. Reached while a chorus or tablature is open it is refused:
\* an exception naming its line is the SyntaxError 'Cannot have command
\* inside', raised with a start marker before that line.
C8_UnsupportedLenientOutsideBlocks ==
  /\ RaisedAtUnsupported =>
       /\ exc.cls = "SyntaxError"
       /\ exc.what \in {"Cannot have command inside Chorus",
                        "Cannot have command inside Tablature"}
       /\ \E i \in 1..(exc.args[1] - 1) :
            isinstance(Tokens[i], {"StartOfChorus", "StartOfTablature"})
  /\ (\A k \in DOMAIN Tokens : ~IsMarker(Tokens[k])) => pc # "raised"
  /\ UnsupportedCaptured
  /\ UnsupportedRenderEmpty
  /\ Returned =>
       \A k \in DOMAIN Tokens :
         Tokens[k].cls = "UnsupportedCommand" =>
           \E m \in DOMAIN Document : Document[m] = Tokens[k]

\* A document has been returned that holds, at top level and directly after
\* a verse, the UnsupportedCommand of a {title: T} line.
C8_Witness ==
  /\ Returned
  /\ \E m \in DOMAIN Document :
       /\ m > 1
       /\ Document[m - 1].cls = "Verse"
       /\ Document[m].cls = "UnsupportedCommand"
       /\ Document[m].command = "title"
       /\ Document[m].value = <<"T">>

\* The places of the list inp, after its first node, of the commands that
\* are no Comment.
CommandsAfterStart(inp) ==
  {k \in 2..Len(inp) : isinstance(inp[k], {"Command"}) /\ ~isinstance(inp[k], {"Comment"})}

\* consume_cls is about to open a block on startcls, and the first command
\* after it that is no Comment is not the block's own end marker endcls.
OffenderAhead(at, startcls, endcls) ==
  /\ pc = at
  /\ input # <<>>
  /\ input[1].cls = startcls
  /\ CommandsAfterStart(input) # {}
  /\ input[Min(CommandsAfterStart(input))].cls # endcls

\* The step from a state with an offender ahead raises the SyntaxError
\* `what` with the offender's line number, and nothing is returned.
OffenderRaises(at, startcls, endcls, what) ==
  OffenderAhead(at, startcls, endcls) =>
    /\ pc' = "raised"
    /\ exc' = Raise("SyntaxError", what, <<input[Min(CommandsAfterStart(input))].lineno>>)
    /\ returned' = None

\* C9: with a chorus (a tablature) open, a directive that is neither a
\* Comment nor the block's own end marker makes syntax_analysis raise the
\* SyntaxError carrying that directive's line number; and whenever
\* syntax_analysis raises, nothing has been returned.
C9_CommandInsideBlockRaises ==
  /\ [][OffenderRaises("consume_chorus", "StartOfChorus", "EndOfChorus",
                       "Cannot have command inside Chorus")]_vars
  /\ [][OffenderRaises("consume_tablature", "StartOfTablature", "EndOfTablature",
                       "Cannot have command inside Tablature")]_vars
  /\ [](pc = "raised" => returned = None)

\* syntax_analysis has raised on a {sot} inside a chorus, after part of the
\* document had been assembled, and has returned nothing.
C9_Witness ==
  /\ pc = "raised"
  /\ exc.what = "Cannot have command inside Chorus"
  /\ Tokens[exc.args[1]].cls = "StartOfTablature"
  /\ retval # <<>>
  /\ returned = None

\* C10 as stated: once a block has been through its end operation, an append
\* raises a SyntaxError and leaves its lines as they were, and the block
\* stays ended.
C10_EndedBlockRefusesAppend ==
  /\ (call.op = "append" /\ EndCalled(call.before)) =>
       /\ call.exc.cls = "SyntaxError"
       /\ obj.lines = call.before.lines
  /\ (call.op # "none" /\ EndCalled(call.before)) => EndCalled(obj)

RECURSIVE Flatten(_)
\* The nodes of a document in order: each pass-through node; of each block
\* its start marker (a Verse has none), its lines and its end marker (when
\* one was recorded).
Flatten(doc) ==
  IF doc = <<>> THEN <<>>
  ELSE LET x == doc[1]
       IN  (IF ~IsBlock(x) THEN <<x>>
            ELSE IF x.cls = "Verse" THEN x.lines
            ELSE <<x.starts>> \o x.lines
                   \o (IF x.ends = None THEN <<>> ELSE <<x.ends>>))
             \o Flatten(Tail(doc))

\* C11: the document syntax_analysis returns, flattened in order, is the
\* token sequence parse gave it, no token dropped, repeated or moved; so the
\* line numbers strictly increase across the document, and no block holds
\* another block. While the loop runs, the flattened part of the document
\* built so far followed by the remaining input is that token sequence.
C11_FlattenGivesTokens ==
  /\ Returned =>
       /\ Flatten(Document) = Tokens
       /\ \A m, n \in DOMAIN Flatten(Document) :
            m < n => Flatten(Document)[m].lineno < Flatten(Document)[n].lineno
       /\ \A k \in DOMAIN Document :
            IsBlock(Document[k]) =>
              \A j \in DOMAIN Document[k].lines : ~IsBlock(Document[k].lines[j])
  /\ pc \in {"while", "consume_extra", "consume_verse", "consume_chorus",
             "consume_tablature", "check"} =>
       Flatten(retval) \o input = Tokens

\* A document has been returned that holds a pass-through node, a Verse and
\* a Chorus with its end marker, and flattens to the four or more tokens of
\* the input.
C11_Witness ==
  /\ Returned
  /\ Len(Tokens) >= 4
  /\ Flatten(Document) = Tokens
  /\ \E a, b, c \in DOMAIN Document :
       /\ ~IsBlock(Document[a])
       /\ Document[b].cls = "Verse"
       /\ Document[c].cls = "Chorus"
       /\ Document[c].ends # None

\* The number of physical lines of the text: one more than its newlines.
LineCount == Cardinality({i \in DOMAIN t : t[i] = "\n"}) + 1

\* One of CommandParser's eight patterns matches the stripped line sl.
KnownDirective(sl) ==
  \/ MatchValued(sl, <<W_comment, W_c>>) # <<>>
  \/ MatchPlain(sl, <<W_start_of_chorus, W_soc>>)
  \/ MatchPlain(sl, <<W_end_of_chorus, W_eoc>>)
  \/ MatchPlain(sl, <<W_start_of_tab, W_sot>>)
  \/ MatchPlain(sl, <<W_end_of_tab, W_eot>>)
  \/ MatchDefine(sl) # <<>>
  \/ MatchValued(sl, <<W_title, W_t>>) # <<>>
  \/ MatchValued(sl, <<W_subtitle, W_st>>) # <<>>

\* The line i of the text, stripped, starts with "{".
BraceLine(i) == strip(TextLines[i]) # <<>> /\ strip(TextLines[i])[1] = "{"

\* C12: parse returns one node for each physical line of the text, the i-th
\* node carrying the line number i; a line starting with "{" that matches no
\* known directive is the HashComment of "#", the line's text and the
\* ignored mark, and a line that matches one is a command.
C12_OneNodePerLine ==
  pc # "parse" =>
    /\ Len(Tokens) = LineCount
    /\ \A i \in DOMAIN Tokens : Tokens[i].lineno = i
    /\ \A i \in DOMAIN Tokens :
         BraceLine(i) =>
           IF KnownDirective(strip(TextLines[i]))
           THEN isinstance(Tokens[i], {"Command"})
           ELSE Tokens[i] =
                  HashComment(<<"#">> \o strip(TextLines[i]) \o IgnoredMark, i)

\* parse has returned the HashComment of a "{" line that names a known
\* directive but matches none of the patterns, with its line number.
C12_Witness ==
  /\ pc # "parse"
  /\ \E i \in DOMAIN Tokens :
       /\ TextLines[i] = <<"{", "c", "}">>
       /\ Tokens[i] = HashComment(<<"#", "{", "c", "}">> \o IgnoredMark, i)

\* The length of v with all its chord entries removed.
VisibleLength(v) == Len(v) - MarkupBefore(finditer(v), Len(finditer(v)) + 1)

\* No chord entry of v holds a space.
NoSpaceInChords(v) ==
  \A n \in DOMAIN finditer(v) :
    \A j \in DOMAIN finditer(v)[n].v : finditer(v)[n].v[j] # " "

\* The last call was break_chordline on a text shorter, chord entries not
\* counted, than the width given.
ShortChordlineCall ==
  /\ call.op = "break_chordline"
  /\ VisibleLength(t) < call.width

\* C13 as stated: break_chordline of a chord line's text (as parse stores it:
\* right-trimmed, with a chord entry) whose visible length is less than the
\* width returns the one-element list of that text, unchanged.
C13_ShortLineUnchanged ==
  (ShortChordlineCall /\ chord_search(t) /\ rstrip(t) = t) =>
    call.ret.items = <<t>>

\* C13 amended: break_chordline of a text whose visible length is less than
\* the width, none of whose chord entries holds a space and which has no more
\* chord entries than sub removes, returns the one-element list of the text
\* stripped of its leading and trailing white space (the empty list when
\* nothing is left): the text itself exactly when it starts and ends with
\* no white space.
C13_ShortLineTrimmed ==
  (ShortChordlineCall /\ NoSpaceInChords(t) /\ Len(finditer(t)) <= SubCount) =>
    /\ call.ret.items = IF strip(t) = <<>> THEN <<>> ELSE <<strip(t)>>
    /\ (t # <<>> /\ strip(t) = t) => call.ret.items = <<t>>

\* break_chordline has returned, as one fragment, a short text of two words
\* with a chord entry, and has returned another stripped of its leading
\* white space.
C13_Witness ==
  /\ ShortChordlineCall
  /\ chord_search(t)
  /\ NoSpaceInChords(t)
  /\ \E j \in DOMAIN strip(t) : strip(t)[j] = " "
  /\ call.ret.items = <<strip(t)>>

\* The non-empty pieces between the spaces of v.
Words(v) == SelectSeq(split(v, " "), LAMBDA k : k # <<>>)

RECURSIVE WordsOfAll(_)
\* The words of the fragments fs, read in order.
WordsOfAll(fs) == IF fs = <<>> THEN <<>> ELSE Words(fs[1]) \o WordsOfAll(Tail(fs))

\* The last call was break_line with a width of 1 or more that no word of
\* the text exceeds.
FittingLineCall ==
  /\ call.op = "break_line"
  /\ call.width >= 1
  /\ \A n \in DOMAIN split(t, " ") : Len(split(t, " ")[n]) <= call.width

\* The fragments returned are non-empty, start and end with no white space,
\* are no longer than the width, and their words are the words of the text.
FragmentsWellFormed ==
  /\ \A n \in DOMAIN call.ret.items :
       /\ call.ret.items[n] # <<>>
       /\ strip(call.ret.items[n]) = call.ret.items[n]
       /\ Len(call.ret.items[n]) <= call.width
  /\ WordsOfAll(call.ret.items) = Words(t)

\* C20 as stated: for every text and width >= 1 that no word of the text
\* exceeds, the fragments of break_line are well formed and hold the words
\* of the text in order.
C20_FragmentsHoldTheWords == FittingLineCall => FragmentsWellFormed

\* The only white space of v is the space character.
SpacesOnly(v) == \A j \in DOMAIN v : v[j] \in Whitespace => v[j] = " "

\* C20 amended: for every text whose only white space is the space
\* character, and every width >= 1 that no word of the text exceeds, the
\* fragments of break_line are well formed and hold the words of the text in
\* order.
C20_FragmentsHoldTheWordsOfSpacedText ==
  (FittingLineCall /\ SpacesOnly(t)) => FragmentsWellFormed

\* break_line has wrapped a text of spaces and letters into two or more
\* fragments, one of them filling the width.
C20_Witness ==
  /\ FittingLineCall
  /\ SpacesOnly(t)
  /\ Len(call.ret.items) >= 2
  /\ \E n \in DOMAIN call.ret.items : Len(call.ret.items[n]) = call.width
  /\ FragmentsWellFormed

\* The last call was the method op of an object of class cls.
Called(op, cls) == call.op = op /\ call.before.cls = cls

\* The text between the first piece of markup of the string s and the next
\* closing piece: the chords line of as_html's string.
HtmlChordsLine(s) ==
  SubSeq(s, 2, Min({k \in DOMAIN s : s[k] = "</span>"}) - 1)

\* The text of the n-th chord of the list.
ChordText(chords, n) == chords[n][2]

\* In the chords line cl the chords stand where their offsets lay them out,
\* and between the end of each chord's text and the start of the next there
\* are one or more characters, all spaces.
SeparatedIn(cl, chords) ==
  /\ Len(cl) = LaidOutAt(chords, Len(chords)) + Len(ChordText(chords, Len(chords)))
  /\ \A n \in DOMAIN chords :
       SubSeq(cl, LaidOutAt(chords, n) + 1,
              LaidOutAt(chords, n) + Len(ChordText(chords, n))) = ChordText(chords, n)
  /\ \A n \in 2..Len(chords) :
       LET end == LaidOutAt(chords, n - 1) + Len(ChordText(chords, n - 1))
       IN  /\ LaidOutAt(chords, n) - end >= 1
           /\ \A j \in (end + 1)..LaidOutAt(chords, n) : cl[j] = " "

\* C18: the chords line as_html writes for a ChordLine holds every chord's
\* text after `offset` spaces, and every chord after the first stands at
\* least one space after the end of the text of the chord before it.
C18_ChordsSeparated ==
  Called("as_html", "ChordLine") =>
    /\ call.exc = None
    /\ call.ret.cls = "str"
    /\ call.ret.value[1] = "<span class=\"chords\">"
    /\ SeparatedIn(HtmlChordsLine(call.ret.value), call.before.chords)

\* as_html has written the chords line of a line whose first two brackets
\* are adjacent: the second chord one space after the first.
C18_Witness ==
  /\ Called("as_html", "ChordLine")
  /\ Len(call.before.chords) >= 2
  /\ finditer(call.before.value)[2].start = finditer(call.before.value)[1].end
  /\ ChordText(call.before.chords, 1) # <<>>
  /\ HtmlChordsLine(call.ret.value)[LaidOutAt(call.before.chords, 2)] = " "

\* The segments break_chordline makes of the line of the last call.
Segments == break_chordline(call.before.value, call.width)

\* C19: as_pdf of a ChordLine raises nothing; the chord lists recomputed
\* from the wrapped segments are as many as the lyric fragments; the list
\* returned has two entries for each segment, the chord annotation (inside
\* its font markup) directly before the segment's bare lyrics.
C19_TwoFragmentsPerSegment ==
  Called("as_pdf", "ChordLine") =>
    /\ call.exc = None
    /\ Len(real_init(Segments)[2]) = Len(real_init(Segments)[1])
    /\ call.ret.cls = "list"
    /\ Len(call.ret.items) = 2 * Len(Segments)
    /\ \A i \in DOMAIN Segments :
         /\ call.ret.items[2 * i - 1][1] = "<font color=#000088><b>"
         /\ call.ret.items[2 * i - 1][Len(call.ret.items[2 * i - 1])] = "</b></font>"
         /\ call.ret.items[2 * i] = chord_sub(Segments[i])

\* as_pdf has returned four or more fragments for a ChordLine wrapped into
\* two or more segments, one of them without chords.
C19_Witness ==
  /\ Called("as_pdf", "ChordLine")
  /\ call.exc = None
  /\ Len(Segments) >= 2
  /\ \E i \in DOMAIN Segments : ~chord_search(Segments[i])
  /\ Len(call.ret.items) = 2 * Len(Segments)

RECURSIVE ReadChords(_, _)
\* The chords read out of the chord-annotation fragments (the odd entries,
\* from the i-th on) of as_pdf's list: the words between the font markup.
ReadChords(items, i) ==
  IF i > Len(items) THEN <<>>
  ELSE Words(SubSeq(items[i], 2, Len(items[i]) - 1)) \o ReadChords(items, i + 2)

\* C14 as stated: the chords read out of as_pdf's chord-annotation fragments
\* are the chord texts of the ChordLine, in order.
C14_ChordTextsPreserved ==
  (Called("as_pdf", "ChordLine") /\ call.exc = None) =>
    ReadChords(call.ret.items, 1) =
      [n \in DOMAIN call.before.chords |-> ChordText(call.before.chords, n)]

\* No chord text of the list is empty or holds a space.
PlainChords(chords) ==
  \A n \in DOMAIN chords :
    /\ ChordText(chords, n) # <<>>
    /\ \A j \in DOMAIN ChordText(chords, n) : ChordText(chords, n)[j] # " "

\* C14 amended: for a ChordLine none of whose chord texts is empty or holds
\* a space, the chords read out of as_pdf's chord-annotation fragments are
\* the chord texts of the ChordLine capitalized (first character upper-cased,
\* the others lower-cased), in order.
C14_ChordTextsCapitalized ==
  (Called("as_pdf", "ChordLine") /\ PlainChords(call.before.chords)) =>
    /\ call.exc = None
    /\ ReadChords(call.ret.items, 1) =
         [n \in DOMAIN call.before.chords |->
            Capitalize(ChordText(call.before.chords, n))]

\* as_pdf has wrapped a ChordLine of two chords, a lower-case one among
\* them, into two segments.
C14_Witness ==
  /\ Called("as_pdf", "ChordLine")
  /\ PlainChords(call.before.chords)
  /\ Len(call.before.chords) = 2
  /\ \E n \in 1..2 : Capitalize(ChordText(call.before.chords, n)) # ChordText(call.before.chords, n)
  /\ Len(call.ret.items) = 4
  /\ Len(ReadChords(call.ret.items, 1)) = 2

\* C15: a call of as_html, as_pdf or as_flowable leaves the object, its
\* lines and their fields as they were, whatever was called before; and a
\* call repeated with the same argument returns (or raises) what the call
\* before it did.
C15_RenderingIsPure ==
  /\ [][obj' = obj]_vars
  /\ [](call.op # "none" => obj = call.before)
  /\ [][(call.op = call'.op /\ call.width = call'.width) =>
          (call'.ret = call.ret /\ call'.exc = call.exc)]_vars

\* as_flowable has returned the flowable of a Chorus holding a ChordLine,
\* and the Chorus is as it was.
C15_Witness ==
  /\ Called("as_flowable", "Chorus")
  /\ \E j \in DOMAIN obj.lines : obj.lines[j].cls = "ChordLine"
  /\ call.ret.cls = "XPreformatted"
  /\ obj = call.before

\* The four consume_* calls of one pass of the loop.
ConsumePcs == {"consume_extra", "consume_verse", "consume_chorus", "consume_tablature"}

\* None of consume_extra, consume_verse, consume_chorus and
\* consume_tablature takes the node x as the first of the input: x is an end
\* marker.
AcceptedByNone(x) == x.cls \in {"EndOfChorus", "EndOfTablature"}

\* The SyntaxError of the loop's check, naming the node x by its line number
\* and its text.
CannotMakeSenseOf(x) ==
  Raise("SyntaxError", "Cannot make sense of " \o str_text(x), <<x.lineno>>)

\* A step of a pass that started on a node none of the four calls accepts
\* consumes nothing and raises nothing.
NothingAccepted ==
  (pc \in ConsumePcs /\ Len(input) = save_length /\ AcceptedByNone(input[1])) =>
    (input' = input /\ pc' \in ConsumePcs \cup {"check"})

\* The check at the end of a pass: when nothing was consumed the error naming
\* the first node of the input is raised, else the input has got shorter and
\* the loop goes on.
CheckDecides ==
  pc = "check" =>
    IF Len(input) = save_length
    THEN pc' = "raised" /\ exc' = CannotMakeSenseOf(input[1]) /\ input' = input
    ELSE pc' = "while" /\ Len(input) < save_length

\* C16: each pass of syntax_analysis's loop either leaves the input shorter
\* or raises the SyntaxError naming the first node left, by line number and
\* text; that error is raised exactly when the pass started on a node that
\* none of the four consume_* calls accepts; and syntax_analysis comes to an
\* end, returning or raising.
C16_EachPassConsumesOrRaises ==
  /\ [][NothingAccepted]_vars
  /\ [][CheckDecides]_vars
  /\ [](pc \in ConsumePcs \cup {"check"} => Len(input) <= save_length)
  /\ []((pc = "raised" /\ exc.what \notin {"Cannot have command inside Chorus",
                                           "Cannot have command inside Tablature",
                                           "object is not iterable"}) =>
          /\ Len(input) = save_length
          /\ AcceptedByNone(input[1])
          /\ exc = CannotMakeSenseOf(input[1]))
  /\ <>(pc \in {"returned", "raised"})

\* The loop's check has raised on an {eot} left at the head of the input,
\* after an earlier pass had consumed the nodes before it.
C16_Witness ==
  /\ pc = "raised"
  /\ retval # <<>>
  /\ input # <<>>
  /\ input[1].cls = "EndOfTablature"
  /\ exc = CannotMakeSenseOf(input[1])
  /\ Len(input) = save_length

\* The number of nodes at the head of inp that are lyric lines.
RECURSIVE LyricRun(_)
LyricRun(inp) ==
  IF inp = <<>> \/ ~isinstance(inp[1], {"Line"}) THEN 0
  ELSE 1 + LyricRun(Tail(inp))

\* consume_verse's step: without a lyric line at the head of the input it
\* takes nothing and adds nothing; else it takes the whole run of lyric
\* lines at the head and adds one ended Verse holding them, and the node
\* that stopped it is the head of the remaining input.
VerseTakesTheRun ==
  pc = "consume_verse" =>
    /\ pc' = "consume_chorus"
    /\ input' = SubSeq(input, LyricRun(input) + 1, Len(input))
    /\ retval' = IF LyricRun(input) = 0 THEN retval
                 ELSE Append(retval, [cls |-> "Verse", ended |-> TRUE,
                                      lines |-> SubSeq(input, 1, LyricRun(input))])
    /\ (input' # <<>> /\ LyricRun(input) > 0) =>
         isinstance(input'[1], {"EmptyLine", "HashComment", "Command"})

\* Every Verse of the list doc has lines, all of them lyric lines, and no
\* Verse directly follows another.
VersesWellFormed(doc) ==
  /\ \A k \in DOMAIN doc :
       doc[k].cls = "Verse" =>
         /\ doc[k].lines # <<>>
         /\ \A j \in DOMAIN doc[k].lines : doc[k].lines[j].cls \in {"Line", "ChordLine"}
  /\ \A k \in 1..(Len(doc) - 1) : ~(doc[k].cls = "Verse" /\ doc[k + 1].cls = "Verse")

\* C17: consume_verse starts only on a lyric line, takes the whole run of
\* lyric lines and leaves the blank, hash comment or directive that stopped
\* it at the head of the input; every Verse of the document, built or
\* returned, is non-empty, holds lyric lines only and is not directly
\* followed by another Verse.
C17_VerseIsMaximalLyricRun ==
  /\ [][VerseTakesTheRun]_vars
  /\ [](pc # "parse" => VersesWellFormed(retval))
  /\ [](Returned => VersesWellFormed(Document))

\* A document has been returned in which a Verse of two lyric lines is
\* directly followed by the directive that stopped it.
C17_Witness ==
  /\ Returned
  /\ \E k \in 1..(Len(Document) - 1) :
       /\ Document[k].cls = "Verse"
       /\ Len(Document[k].lines) = 2
       /\ Document[k + 1].cls = "Comment"
       /\ Document[k + 1].lineno = Document[k].lines[2].lineno + 1

\* What convert makes of the n-th line of its input.
Classified(n) == parsed_line(converter.lines[n], n)

\* The n-th line of the input is a chord line directly followed by a lyric
\* line.
FollowedByLyrics(n) ==
  /\ n < Len(converter.lines)
  /\ Classified(n + 1).cls = "converter.Line"

\* The chord line that is the n-th line of the input is in the list of
\* output lines: merged into the lyric line that directly follows it, or,
\* where no lyric line directly follows, as it stands.
ChordLineKept(n) ==
  IF FollowedByLyrics(n)
  THEN \E m \in DOMAIN converter.retval :
         converter.retval[m] = combine(Classified(n), Classified(n + 1))
  ELSE \E m \in DOMAIN converter.retval : converter.retval[m] = Classified(n).value

\* C21 as stated: convert never loses a chord line: once it has returned,
\* every line it classified as a chord line is in the output, merged into
\* the lyric line that directly follows it or verbatim, also when the chord
\* line is the last line of the input or is followed by a blank line or by
\* another chord line.
C21_NoChordLineLost ==
  converter.pc = "returned" =>
    \A n \in DOMAIN converter.lines : Classified(n).cls = "Chord" => ChordLineKept(n)

\* convert has returned from an input whose last line is a chord line, and
\* no line of the output holds it: it is still waiting.
C21_Witness ==
  /\ converter.pc = "returned"
  /\ converter.lines # <<>>
  /\ Classified(Len(converter.lines)).cls = "Chord"
  /\ converter.waiting = Classified(Len(converter.lines))
  /\ ~ChordLineKept(Len(converter.lines))

\* The objects of the three containers of the generator.
Contained ==
  {generator.artists[n] : n \in DOMAIN generator.artists}
    \cup {generator.songs[n] : n \in DOMAIN generator.songs}
    \cup {generator.collections[n] : n \in DOMAIN generator.collections}

\* The objects of the three slug dictionaries of generate_context.
Registered ==
  {generator._artists[k] : k \in DOMAIN generator._artists}
    \cup {generator._songs[k] : k \in DOMAIN generator._songs}
    \cup {generator._collections[k] : k \in DOMAIN generator._collections}

\* The source file f is not in the cache, no object of a container comes
\* from it and no object of a slug dictionary comes from it.
Skipped(f) ==
  /\ f \notin DOMAIN generator.cache
  /\ \A o \in Contained : o.source_path # f
  /\ \A o \in Registered : o.source_path # f

\* C22 as stated: in generate_context a source file recorded as failed (a
\* song with a performer or composer slug of no loaded artist, a collection
\* with a song slug of no loaded song) is skipped: it is not cached, not
\* appended to its container and not registered in the slug dictionary.
C22_FailedSourceSkipped == \A f \in generator.failed : Skipped(f)

\* generate_context is through, the song file s1 whose performer slug is of
\* no artist is recorded as failed, and its object is cached, in songs and
\* in the slug dictionary of the songs all the same.
C22_Witness ==
  /\ generator.pc = "done"
  /\ "s1" \in generator.failed
  /\ "s1" \in DOMAIN generator.cache
  /\ "s1" \in DOMAIN generator._songs
  /\ generator._songs["s1"].metadata.performer_slug = Str("x")
  /\ \E n \in DOMAIN generator.songs : generator.songs[n] = generator._songs["s1"]

====
